---- MODULE Spec2Model ----
(***************************************************************************)
(* Model of the duplicate image detector of src/image_clone_remover.py:    *)
(* the fingerprinting phase run by a thread pool over a shared index       *)
(* (specification Spec) and the selection / backup / deletion workflow     *)
(* that follows the pool join (specification SpecResolve), the whole run   *)
(* (SpecFull, SpecMain), a user interrupt (SpecCancel), the directory      *)
(* scanners of the tools (SpecScan) and the size of their thread pools     *)
(* (SpecPool).                                                             *)
(***************************************************************************)
EXTENDS Integers, Sequences, FiniteSets, TLC

(* ------------------------------ bounds --------------------------------- *)

\* number of image files returned by find_image_files
NumFiles == 3

\* size of the thread pool (max_threads)
MaxThreads == 2

\* number of distinct base names the scanned paths can have
NumNames == 2

\* modification times returned by os.stat range over 1..MaxTime
MaxTime == 2

\* number of files in the directory a scanner walks
MaxEntries == 2

\* number of tasks submitted to a thread pool whose size is looked at
NumTasks == 3

\* number of .dcm files the converter finds
NumDcm == 3

\* size of the converter's thread pool
DcmWorkers == 2

\* number of distinct flattened names the .dcm files found can have
NumSafeNames == 2

\* number of image files the photo processor finds in the current folder
NumPhotos == 3

\* number of valid images the sorter finds in the source folder
NumImages == 2

\* config["processing"]["max_workers"] of the sorter
SortWorkers == 2

(* ------------------------------ files ---------------------------------- *)

\* A path is the number f; it stands for directory (f-1) \div NumNames and
\* base name (f-1) % NumNames, so the order of the numbers is the
\* lexicographic order of the paths.
Files == 1..NumFiles

Basename(f) == (f - 1) % NumNames

\* The content of an image file: the 8x8 grey thumbnail it is reduced to
\* (shortened to two pixels) and the detail the reduction throws away.
Img(px, d) == [readable |-> TRUE, pixels |-> px, detail |-> d]

Unreadable == [readable |-> FALSE, pixels |-> <<>>, detail |-> 0]

ContentChoices ==
    { Img(<<1, 21>>, 0), Img(<<1, 21>>, 1), Img(<<12, 1>>, 0),
      Img(<<3, 4>>, 0), Unreadable }

\* the contents drawn for the workflow that follows the pool join
ResolveContents ==
    { Img(<<1, 21>>, 0), Img(<<1, 21>>, 1), Img(<<3, 4>>, 0), Unreadable }

\* st_size of a file with content c
FileSize(c) == Len(c.pixels) + c.detail

None == 0

NoLock == 0

(* -------------------------- the fingerprint ---------------------------- *)

RECURSIVE Digits(_)
\* str(p): the decimal digits of a pixel value
Digits(p) == IF p < 10 THEN <<p>> ELSE Digits(p \div 10) \o <<p % 10>>

RECURSIVE PixelString(_)
\* ''.join(str(p) for p in pixels)
PixelString(px) ==
    IF px = <<>> THEN <<>> ELSE Digits(Head(px)) \o PixelString(Tail(px))

RECURSIVE Md5Fold(_, _)
Md5Fold(s, acc) ==
    IF s = <<>> THEN acc ELSE Md5Fold(Tail(s), acc * 10 + Head(s))

\* the digest of the empty input whatever s is (the mutant: the string is
\* never fed to the hash object)
Md5OfNothing(s) == Md5Fold(<<>>, 1)

\* hashlib.md5(s).hexdigest(): a digest that differs for different (short)
\* strings and is never empty
Md5(s) == Md5Fold(s, 1)

\* the hash a readable file is given (the mutant: a hash for any file)
calculate_image_hash_nofail(c) == Md5(PixelString(c.pixels))

calculate_image_hash(c) ==
    IF c.readable THEN Md5(PixelString(c.pixels)) ELSE None

(* ------------------------------ state ---------------------------------- *)

VARIABLES
    content,          \* what is on disk at each scanned path
    mainpc,           \* position of the main thread
    pc,               \* position of the task of each file
    hash_value,       \* the local hash_value of each task
    lock,             \* holder of self.lock
    image_hashes,     \* self.image_hashes: hash -> first path seen
    duplicates,       \* self.duplicates, in insertion order
    processed_count,  \* self.processed_count
    total_files,      \* self.total_files
    count_read        \* line 55: the value of self.processed_count a thread has read

hashvars == <<content, mainpc, pc, hash_value, lock, image_hashes,
              duplicates, processed_count, total_files, count_read>>

VARIABLES
    strategy,         \* manage_duplicates: the chosen strategy
    gi,               \* choose_files_to_keep: groups iterated so far
    file_infos,       \* choose_files_to_keep: file_infos of the last group
    files_to_keep,    \* choose_files_to_keep: files_to_keep
    files_to_delete,  \* choose_files_to_keep: files_to_delete
    backup_dir,       \* manage_duplicates: TRUE when a backup directory is given
    final_confirm,    \* manage_duplicates: the answer to the last prompt
    di,               \* delete_duplicate_files: files iterated so far
    deleted_files,    \* delete_duplicate_files: deleted_files
    failed_deletions, \* delete_duplicate_files: failed_deletions
    exists,           \* which scanned paths are on disk
    backup,           \* the files of the backup directory: name -> content
    total_size        \* manage_duplicates: what preview_deletion returned

resvars == <<strategy, gi, file_infos, files_to_keep, files_to_delete,
             backup_dir, final_confirm, di, deleted_files, failed_deletions,
             exists, backup, total_size>>

VARIABLES
    listing,          \* the names of the files of the directory that is scanned
    windows,          \* TRUE when pathlib matches names without regard to case
    scan_pc,          \* which scanner has run
    image_files       \* the list the scanner returns

scanvars == <<listing, windows, scan_pc, image_files>>

VARIABLES
    pool_tool,        \* the tool whose thread pool is looked at
    cpu_count,        \* multiprocessing.cpu_count()
    size_given,       \* the pool size the caller passes, None for the default
    max_workers,      \* max_workers of the ThreadPoolExecutor, None before it
    task_pc           \* position of each task submitted to the pool

poolvars == <<pool_tool, cpu_count, size_given, max_workers, task_pc>>

VARIABLES
    dcm_kind,         \* what each .dcm file found holds
    dcm_pc,           \* position of the conversion task of each file
    dcm_result,       \* the success flag each conversion returns
    file_lock,        \* holder of self.file_lock
    output_path,      \* the local output_path of each conversion
    out_dir,          \* the files of the output folder: name -> source file
    converted_count,  \* self.converted_count
    error_count,      \* self.error_count
    dcm_main          \* position of convert_all

dcmvars == <<dcm_kind, dcm_pc, dcm_result, file_lock, output_path, out_dir,
             converted_count, error_count, dcm_main>>

VARIABLES
    photo_content,    \* the bytes of each image file found at the start
    original_files,   \* randomize_photos: original_files
    file_hashes,      \* self.file_hashes: path -> hash
    hi,               \* find_unique_files: files hashed so far
    unique_files,     \* find_unique_files: hash -> primary file, in order
    photo_duplicates, \* find_unique_files: duplicates, (copy, primary) pairs
    photo_pc,         \* position of process_all
    cwd,              \* the image files of the current folder: name -> bytes
    temp_files,       \* the files of the temporary folder: name -> bytes
    temp_exists,      \* the temporary folder exists
    randomized_count, \* randomize_photos: processed_count
    ci,               \* randomize_photos: unique files iterated so far
    ri,               \* randomize_photos: original files iterated so far
    sorted_files,     \* sequentially_rename_photos: sorted_files
    si,               \* sequentially_rename_photos: files iterated so far
    sequential_count, \* sequentially_rename_photos: processed_count
    starting_number   \* sequentially_rename_photos: starting_number

photovars == <<photo_content, original_files, file_hashes, hi, unique_files,
               photo_duplicates, photo_pc, cwd, temp_files, temp_exists,
               randomized_count, ci, ri, sorted_files, si, sequential_count,
               starting_number>>

VARIABLES
    sort_size,        \* the width and height of each image of the source folder
    sort_content,     \* the bytes of each image of the source folder
    check_duplicates, \* config["processing"]["check_duplicates"]
    preview_mode,     \* config["processing"]["preview_mode"]
    sort_pc,          \* position of each process_image call
    sort_hash,        \* process_image: hash_value
    thread_lock,      \* self.thread_lock: its holder or NoLock
    sort_duplicates,  \* self.duplicates: hash -> file names
    stats,            \* self.stats
    stats_read,       \* the values of self.stats a thread has read
    target_fs,        \* the files of the target folders: path -> who wrote it
    target_path,      \* process_image: target_path
    sort_result,      \* how each process_image call ended
    sort_main         \* position of sort_images

sortvars == <<sort_size, sort_content, check_duplicates, preview_mode,
              sort_pc, sort_hash, thread_lock, sort_duplicates, stats,
              stats_read, target_fs, target_path, sort_result, sort_main>>

\* the state of the tools other than the duplicate detector
toolvars == <<scanvars, poolvars, dcmvars, photovars, sortvars>>

vars == <<hashvars, resvars, toolvars>>

(* ----------------------- the duplicates mapping ------------------------ *)

DupKeys(d) == { d[i].hash : i \in 1..Len(d) }

DupIndex(d, h) == CHOOSE i \in 1..Len(d) : d[i].hash = h

DupGet(d, h) == d[DupIndex(d, h)].files

\* self.duplicates[h].append(p) on a defaultdict(list)
DupAppend(d, h, p) ==
    IF h \in DupKeys(d)
    THEN [i \in 1..Len(d) |->
            IF d[i].hash = h
            THEN [hash |-> h, files |-> Append(d[i].files, p)]
            ELSE d[i]]
    ELSE Append(d, [hash |-> h, files |-> <<p>>])

Range(s) == { s[i] : i \in 1..Len(s) }

\* no scanner is being looked at
ScanIdle ==
    /\ listing = {}
    /\ windows = FALSE
    /\ scan_pc = "idle"
    /\ image_files = <<>>

\* no pool is being looked at
PoolIdle ==
    /\ pool_tool = "none"
    /\ cpu_count = 0
    /\ size_given = 0
    /\ max_workers = 0
    /\ task_pc = <<>>

\* the converter is not run
DcmIdle ==
    /\ dcm_kind = <<>>
    /\ dcm_pc = <<>>
    /\ dcm_result = <<>>
    /\ file_lock = NoLock
    /\ output_path = <<>>
    /\ out_dir = <<>>
    /\ converted_count = 0
    /\ error_count = 0
    /\ dcm_main = "idle"

\* the photo processor is not run
PhotoIdle ==
    /\ photo_content = <<>>
    /\ original_files = <<>>
    /\ file_hashes = <<>>
    /\ hi = 0
    /\ unique_files = <<>>
    /\ photo_duplicates = <<>>
    /\ photo_pc = "idle"
    /\ cwd = <<>>
    /\ temp_files = <<>>
    /\ temp_exists = FALSE
    /\ randomized_count = 0
    /\ ci = 0
    /\ ri = 0
    /\ sorted_files = <<>>
    /\ si = 0
    /\ sequential_count = 0
    /\ starting_number = 0

\* the image sorter is not run
SortIdle ==
    /\ sort_size = <<>>
    /\ sort_content = <<>>
    /\ check_duplicates = FALSE
    /\ preview_mode = FALSE
    /\ sort_pc = <<>>
    /\ sort_hash = <<>>
    /\ thread_lock = NoLock
    /\ sort_duplicates = <<>>
    /\ stats = <<>>
    /\ stats_read = <<>>
    /\ target_fs = <<>>
    /\ target_path = <<>>
    /\ sort_result = <<>>
    /\ sort_main = "idle"

\* the other tools are not run
ToolsIdle == ScanIdle /\ PoolIdle /\ DcmIdle /\ PhotoIdle /\ SortIdle

\* the state of the workflow before manage_duplicates has run
InitLocals ==
    /\ strategy = "none"
    /\ gi = 0
    /\ file_infos = <<>>
    /\ files_to_keep = <<>>
    /\ files_to_delete = <<>>
    /\ backup_dir = FALSE
    /\ final_confirm = "none"
    /\ di = 0
    /\ deleted_files = <<>>
    /\ failed_deletions = <<>>
    /\ exists = [f \in Files |-> TRUE]
    /\ backup = <<>>
    /\ total_size = 0

(* --------------------------- the thread pool --------------------------- *)

Queued == { f \in Files : pc[f] = "queued" }

Running == { f \in Files : pc[f] \notin {"queued", "done"} }

\* with self.lock: the lock can be taken (the mutant: no mutual exclusion)
LockFreeBroken == TRUE

LockFree == lock = NoLock

InitHash ==
    /\ content \in [Files -> ContentChoices]
    /\ mainpc = "pool"
    /\ pc = [f \in Files |-> "queued"]
    /\ hash_value = [f \in Files |-> None]
    /\ lock = NoLock
    /\ image_hashes = <<>>
    /\ duplicates = <<>>
    /\ processed_count = 0
    /\ total_files = NumFiles
    /\ count_read = [f \in Files |-> 0]
    /\ InitLocals
    /\ ToolsIdle

\* a worker of the pool takes the next submitted task; the workers go on
\* doing so while the executor is shut down with wait=True
Start(f) ==
    /\ mainpc \in {"pool", "shutdown"}
    /\ pc[f] = "queued"
    /\ \A g \in Queued : f <= g
    /\ Cardinality(Running) < MaxThreads
    /\ pc' = [pc EXCEPT ![f] = "hash"]
    /\ UNCHANGED <<content, mainpc, hash_value, lock, image_hashes,
                   duplicates, processed_count, total_files, count_read, resvars,
                   toolvars>>

\* the hash of the content mixed with the path it was read from (the
\* mutant: the fingerprint is not a function of the content alone)
CalcHashOfPath(f) ==
    /\ pc[f] = "hash"
    /\ LET h == calculate_image_hash(content[f]) IN
         /\ hash_value' = [hash_value EXCEPT ![f] = IF h # None THEN h * 10 + f ELSE h]
         /\ pc' = [pc EXCEPT ![f] = IF h # None THEN "lock" ELSE "done"]
    /\ UNCHANGED <<content, mainpc, lock, image_hashes, duplicates,
                   processed_count, total_files, count_read, resvars, toolvars>>

\* line 43: hash_value = self.calculate_image_hash(image_path); line 45
CalcHash(f) ==
    /\ pc[f] = "hash"
    /\ LET h == calculate_image_hash(content[f]) IN
         /\ hash_value' = [hash_value EXCEPT ![f] = h]
         /\ pc' = [pc EXCEPT ![f] = IF h # None THEN "lock" ELSE "done"]
    /\ UNCHANGED <<content, mainpc, lock, image_hashes, duplicates,
                   processed_count, total_files, count_read, resvars, toolvars>>

\* line 46: with self.lock
Acquire(f) ==
    /\ pc[f] = "lock"
    /\ LockFree
    /\ lock' = f
    /\ pc' = [pc EXCEPT ![f] = "l47"]
    /\ UNCHANGED <<content, mainpc, hash_value, image_hashes, duplicates,
                   processed_count, total_files, count_read, resvars, toolvars>>

\* line 47: if hash_value in self.image_hashes
Line47(f) ==
    /\ pc[f] = "l47"
    /\ pc' = [pc EXCEPT ![f] =
                IF hash_value[f] \in DOMAIN image_hashes THEN "l49" ELSE "l53"]
    /\ UNCHANGED <<content, mainpc, hash_value, lock, image_hashes,
                   duplicates, processed_count, total_files, count_read, resvars,
                   toolvars>>

\* line 49: if hash_value not in self.duplicates
Line49(f) ==
    /\ pc[f] = "l49"
    /\ pc' = [pc EXCEPT ![f] =
                IF hash_value[f] \notin DupKeys(duplicates) THEN "l50" ELSE "l51"]
    /\ UNCHANGED <<content, mainpc, hash_value, lock, image_hashes,
                   duplicates, processed_count, total_files, count_read, resvars,
                   toolvars>>

\* line 50: self.duplicates[hash_value].append(self.image_hashes[hash_value])
Line50(f) ==
    /\ pc[f] = "l50"
    /\ duplicates' = DupAppend(duplicates, hash_value[f],
                               image_hashes[hash_value[f]])
    /\ pc' = [pc EXCEPT ![f] = "l51"]
    /\ UNCHANGED <<content, mainpc, hash_value, lock, image_hashes,
                   processed_count, total_files, count_read, resvars, toolvars>>

\* line 51: self.duplicates[hash_value].append(image_path)
Line51(f) ==
    /\ pc[f] = "l51"
    /\ duplicates' = DupAppend(duplicates, hash_value[f], f)
    /\ pc' = [pc EXCEPT ![f] = "l55"]
    /\ UNCHANGED <<content, mainpc, hash_value, lock, image_hashes,
                   processed_count, total_files, count_read, resvars, toolvars>>

\* line 53: self.image_hashes[hash_value] = image_path
Line53(f) ==
    /\ pc[f] = "l53"
    /\ image_hashes' = (hash_value[f] :> f) @@ image_hashes
    /\ pc' = [pc EXCEPT ![f] = "l55"]
    /\ UNCHANGED <<content, mainpc, hash_value, lock, duplicates,
                   processed_count, total_files, count_read, resvars, toolvars>>

\* line 55, self.processed_count += 1: the thread reads the counter
Line55Load(f) ==
    /\ pc[f] = "l55"
    /\ count_read' = [count_read EXCEPT ![f] = processed_count]
    /\ pc' = [pc EXCEPT ![f] = "l55s"]
    /\ UNCHANGED <<content, mainpc, hash_value, lock, image_hashes,
                   duplicates, processed_count, total_files, resvars,
                   toolvars>>

\* line 55, self.processed_count += 1: the thread stores the value it read
\* plus one, and the with block ends
Line55(f) ==
    /\ pc[f] = "l55s"
    /\ processed_count' = count_read[f] + 1
    /\ count_read' = [count_read EXCEPT ![f] = 0]
    /\ lock' = IF lock = f THEN NoLock ELSE lock
    /\ pc' = [pc EXCEPT ![f] = "done"]
    /\ UNCHANGED <<content, mainpc, hash_value, image_hashes, duplicates,
                   total_files, resvars, toolvars>>

\* lines 92-102: leaving the with block of the executor waits for every
\* submitted task (the mutant: it waits for the first completed task only)
FirstTaskDone == \E f \in Files : pc[f] = "done"

AllTasksDone == \A f \in Files : pc[f] = "done"

\* lines 92-102: the with block of the executor ends when every task has
\* completed
PoolJoin ==
    /\ mainpc = "pool"
    /\ AllTasksDone
    /\ mainpc' = "display"
    /\ UNCHANGED <<content, pc, hash_value, lock, image_hashes, duplicates,
                   processed_count, total_files, count_read, resvars, toolvars>>

\* lines 104-108 and 398: the results are shown; main offers the menu when
\* duplicates were found
DisplayResults ==
    /\ mainpc = "display"
    /\ mainpc' = IF duplicates # <<>> THEN "menu" ELSE "end"
    /\ UNCHANGED <<content, pc, hash_value, lock, image_hashes, duplicates,
                   processed_count, total_files, count_read, resvars, toolvars>>

NextHash ==
    \/ \E f \in Files : Start(f)
    \/ \E f \in Files : CalcHash(f)
    \/ \E f \in Files : Acquire(f)
    \/ \E f \in Files : Line47(f)
    \/ \E f \in Files : Line49(f)
    \/ \E f \in Files : Line50(f)
    \/ \E f \in Files : Line51(f)
    \/ \E f \in Files : Line53(f)
    \/ \E f \in Files : Line55Load(f)
    \/ \E f \in Files : Line55(f)
    \/ PoolJoin
    \/ DisplayResults

Spec == InitHash /\ [][NextHash]_vars


(* ------------------- the index after the pool join --------------------- *)

\* lines 47-53 for one file: the index after process_image(f) ran alone
IndexInsert(idx, h, f) ==
    IF h = None THEN idx
    ELSE IF h \in DOMAIN idx.image_hashes
    THEN [image_hashes |-> idx.image_hashes,
          duplicates |->
            DupAppend(IF h \notin DupKeys(idx.duplicates)
                      THEN DupAppend(idx.duplicates, h, idx.image_hashes[h])
                      ELSE idx.duplicates, h, f)]
    ELSE [image_hashes |-> (h :> f) @@ idx.image_hashes,
          duplicates |-> idx.duplicates]

RECURSIVE SeqRun(_, _)
\* the index after process_image ran for the files of order, one at a time
SeqRun(order, cont) ==
    IF order = <<>> THEN [image_hashes |-> <<>>, duplicates |-> <<>>]
    ELSE IndexInsert(SeqRun(SubSeq(order, 1, Len(order) - 1), cont),
                     calculate_image_hash(cont[order[Len(order)]]),
                     order[Len(order)])

\* the orders in which the tasks of the pool can reach the index
Orders == { o \in [1..NumFiles -> Files] :
              \A i, j \in 1..NumFiles : o[i] = o[j] => i = j }

(* ------------------------ choose_files_to_keep ------------------------- *)

\* get_file_info, lines 153-165: st is what os.stat gives, 0 when it raises
get_file_info(f, st) ==
    [path |-> f, size |-> FileSize(content[f]), mtime |-> st]

RECURSIVE CollectInfos(_, _)
\* lines 177-181: the infos of the files whose os.stat succeeded
CollectInfos(file_list, st) ==
    IF file_list = <<>> THEN <<>>
    ELSE LET n == Len(file_list)
             rest == CollectInfos(SubSeq(file_list, 1, n - 1), st)
         IN IF st[file_list[n]] # 0
            THEN Append(rest, get_file_info(file_list[n], st[file_list[n]]))
            ELSE rest

\* the key functions of lines 188-194
KeyOf(x, key) == IF key = "mtime" THEN x.mtime ELSE x.size

\* the first element with the smallest key (the mutant: max taken for min)
MaxByReversed(infos, key) ==
    infos[CHOOSE i \in 1..Len(infos) :
            /\ \A j \in 1..Len(infos) : KeyOf(infos[j], key) >= KeyOf(infos[i], key)
            /\ \A j \in 1..(i - 1) : KeyOf(infos[j], key) > KeyOf(infos[i], key)]

\* max(file_infos, key): the first element with the greatest key
MaxBy(infos, key) ==
    infos[CHOOSE i \in 1..Len(infos) :
            /\ \A j \in 1..Len(infos) : KeyOf(infos[j], key) <= KeyOf(infos[i], key)
            /\ \A j \in 1..(i - 1) : KeyOf(infos[j], key) < KeyOf(infos[i], key)]

\* min(file_infos, key): the first element with the smallest key
MinBy(infos, key) ==
    infos[CHOOSE i \in 1..Len(infos) :
            /\ \A j \in 1..Len(infos) : KeyOf(infos[j], key) >= KeyOf(infos[i], key)
            /\ \A j \in 1..(i - 1) : KeyOf(infos[j], key) > KeyOf(infos[i], key)]

\* manual_file_selection, lines 208-225: the file whose number was typed
manual_file_selection(infos, choice) == infos[choice]

\* lines 187-197: the file to keep
KeepFile(strat, infos, choice) ==
    CASE strat = "newest"   -> MaxBy(infos, "mtime")
      [] strat = "oldest"   -> MinBy(infos, "mtime")
      [] strat = "largest"  -> MaxBy(infos, "size")
      [] strat = "smallest" -> MinBy(infos, "size")
      [] OTHER              -> manual_file_selection(infos, choice)

\* the paths of all the infos (the mutant: the kept file is not left out)
AllPaths(infos, keep) == [i \in 1..Len(infos) |-> infos[i].path]

RECURSIVE OtherPaths(_, _)
\* lines 202-204: the paths of the infos other than the kept one
OtherPaths(infos, keep) ==
    IF infos = <<>> THEN <<>>
    ELSE LET n == Len(infos)
             rest == OtherPaths(SubSeq(infos, 1, n - 1), keep)
         IN IF infos[n].path # keep.path THEN Append(rest, infos[n].path)
            ELSE rest

\* line 183: a group none of whose files could be read is skipped (the
\* mutant: a group with a single readable file is skipped as well)
NoInfosOrOne(infos) == Len(infos) <= 1

NoInfos(infos) == infos = <<>>

Strategies == <<"newest", "oldest", "largest", "smallest", "manual">>

(* ----------------------- delete_duplicate_files ------------------------ *)

\* the name tried first, free or not (the mutant: no os.path.exists loop)
FirstBackupPath(dir, base, counter) == <<base, counter>>

\* the name whose suffix is the number of files of the directory (the
\* mutant: a free name that is not the first free one)
CountBackupPath(dir, base, counter) ==
    <<base, counter + Cardinality(DOMAIN dir)>>

RECURSIVE FreeBackupPath(_, _, _)
\* lines 269-276: the first free name among base, base_1, base_2, ...
FreeBackupPath(dir, base, counter) ==
    IF <<base, counter>> \notin DOMAIN dir THEN <<base, counter>>
    ELSE FreeBackupPath(dir, base, counter + 1)

\* lines 278-281: os.remove is reached when no backup is asked for or the
\* copy succeeded (the mutant: it is reached whatever the copy did)
RemoveReachedAlways(with_backup, copy_ok) == TRUE

RemoveReached(with_backup, copy_ok) == (~with_backup) \/ copy_ok

\* lines 265 and 287: the loop goes on with the next file after a failure
\* (the mutant: it stops at the first failure)
NextIndexStop(i, n, failed) == IF failed THEN n ELSE i + 1

NextIndex(i, n, failed) == i + 1

\* line 359: the answer that confirms the deletion (the mutant: any answer
\* that is not empty)
ConfirmedLoose(answer) == answer # ""

Confirmed(answer) == answer = "EVET"

Answers == {"EVET", "evet", ""}

\* what the backup directory can hold before the run
BackupChoices == { <<>>, (<<0, 0>> :> Img(<<3, 4>>, 0)) }

(* --------------------------- the workflow ------------------------------ *)

\* the state main is in when detect_duplicates has returned
InitResolve ==
    /\ content \in [Files -> ResolveContents]
    /\ \E o \in Orders :
         /\ image_hashes = SeqRun(o, content).image_hashes
         /\ duplicates = SeqRun(o, content).duplicates
    /\ mainpc = "display"
    /\ pc = [f \in Files |-> "done"]
    /\ hash_value = [f \in Files |-> calculate_image_hash(content[f])]
    /\ lock = NoLock
    /\ processed_count =
         Cardinality({ f \in Files : calculate_image_hash(content[f]) # None })
    /\ total_files = NumFiles
    /\ count_read = [f \in Files |-> 0]
    /\ InitLocals
    /\ ToolsIdle

\* main, lines 398-429: 2 and 3 call manage_duplicates
MainMenu(choice) ==
    /\ mainpc = "menu"
    /\ mainpc' = IF choice \in {2, 3} THEN "manage" ELSE "end"
    /\ UNCHANGED <<content, pc, hash_value, lock, image_hashes, duplicates,
                   processed_count, total_files, count_read, resvars, toolvars>>

\* manage_duplicates, lines 295-338: the strategy menu; a number outside
\* 1..6 is reported (line 318) and the question is asked again
ChooseStrategy(choice) ==
    /\ mainpc \in {"manage", "badchoice"}
    /\ IF duplicates = <<>> \/ choice = 6
       THEN /\ mainpc' = "end"
            /\ UNCHANGED strategy
       ELSE IF choice \notin 1..6
       THEN /\ mainpc' = "badchoice"
            /\ UNCHANGED strategy
       ELSE /\ mainpc' = "choose"
            /\ strategy' = Strategies[choice]
    /\ UNCHANGED <<content, pc, hash_value, lock, image_hashes, duplicates,
                   processed_count, total_files, count_read, gi, file_infos,
                   files_to_keep, files_to_delete, backup_dir, final_confirm,
                   di, deleted_files, failed_deletions, exists, backup,
                   total_size, toolvars>>

\* line 172: the for loop takes the groups one after the other (the
\* mutant: the loop stays on the group it has just handled)
SameGroup(i) == i

NextGroup(i) == i + 1

\* choose_files_to_keep, lines 172-204: one turn of the loop over the groups
ChooseGroup ==
    /\ mainpc = "choose"
    /\ gi < Len(duplicates)
    /\ gi' = NextGroup(gi)
    /\ LET file_list == duplicates[gi + 1].files IN
         IF Len(file_list) <= 1
         THEN UNCHANGED <<file_infos, files_to_keep, files_to_delete>>
         ELSE \E st \in [Range(file_list) -> 0..MaxTime] :
                LET infos == CollectInfos(file_list, st) IN
                  /\ file_infos' = infos
                  /\ IF NoInfos(infos)
                     THEN UNCHANGED <<files_to_keep, files_to_delete>>
                     ELSE \E choice \in 1..Len(infos) :
                            LET keep_file == KeepFile(strategy, infos, choice)
                            IN /\ files_to_keep' =
                                    Append(files_to_keep, keep_file.path)
                               /\ files_to_delete' = files_to_delete \o
                                    OtherPaths(infos, keep_file)
    /\ UNCHANGED <<content, mainpc, pc, hash_value, lock, image_hashes,
                   duplicates, processed_count, total_files, count_read, strategy,
                   backup_dir, final_confirm, di, deleted_files,
                   failed_deletions, exists, backup, total_size, toolvars>>

RECURSIVE preview_deletion(_)
\* preview_deletion, lines 233-251: the sum of the sizes of the files of the
\* list; os.path.getsize of a file that os.stat has just read succeeds
preview_deletion(files) ==
    IF files = <<>> THEN 0
    ELSE FileSize(content[Head(files)]) + preview_deletion(Tail(files))

\* the selector empties the index when it returns (the mutant: the groups
\* are consumed by the selection)
ChooseReturnClearing ==
    /\ mainpc = "choose"
    /\ gi = Len(duplicates)
    /\ mainpc' = IF files_to_delete = <<>> THEN "end" ELSE "askbackup"
    /\ gi' = 0
    /\ file_infos' = <<>>
    /\ duplicates' = <<>>
    /\ total_size' = IF files_to_delete = <<>> THEN total_size
                     ELSE preview_deletion(files_to_delete)
    /\ UNCHANGED <<content, pc, hash_value, lock, image_hashes,
                   processed_count, total_files, count_read, strategy, files_to_keep,
                   files_to_delete, backup_dir, final_confirm, di,
                   deleted_files, failed_deletions, exists, backup, toolvars>>

\* line 206 and lines 340-345: the lists are returned and previewed
ChooseReturn ==
    /\ mainpc = "choose"
    /\ gi = Len(duplicates)
    /\ mainpc' = IF files_to_delete = <<>> THEN "end" ELSE "askbackup"
    /\ gi' = 0
    /\ file_infos' = <<>>
    /\ total_size' = IF files_to_delete = <<>> THEN total_size
                     ELSE preview_deletion(files_to_delete)
    /\ UNCHANGED <<content, pc, hash_value, lock, image_hashes, duplicates,
                   processed_count, total_files, count_read, strategy, files_to_keep,
                   files_to_delete, backup_dir, final_confirm, di,
                   deleted_files, failed_deletions, exists, backup, toolvars>>

\* lines 349-355: the backup question; the directory named holds dir
AskBackup(answer, dir) ==
    /\ mainpc = "askbackup"
    /\ backup_dir' = answer
    /\ backup' = IF answer THEN dir ELSE <<>>
    /\ mainpc' = "confirm"
    /\ UNCHANGED <<content, pc, hash_value, lock, image_hashes, duplicates,
                   processed_count, total_files, count_read, strategy, gi, file_infos,
                   files_to_keep, files_to_delete, final_confirm, di,
                   deleted_files, failed_deletions, exists, total_size,
                   toolvars>>

\* lines 357-378 and 255-263: the last question; the executor starts when
\* the answer confirms, and creating the backup directory can raise
Confirm(answer, makedirs_ok) ==
    /\ mainpc = "confirm"
    /\ final_confirm' = answer
    /\ mainpc' = IF ~Confirmed(answer) THEN "end"
                 ELSE IF backup_dir /\ ~makedirs_ok THEN "crashed"
                 ELSE "delete"
    /\ UNCHANGED <<content, pc, hash_value, lock, image_hashes, duplicates,
                   processed_count, total_files, count_read, strategy, gi, file_infos,
                   files_to_keep, files_to_delete, backup_dir, di,
                   deleted_files, failed_deletions, exists, backup,
                   total_size, toolvars>>

\* lines 265-289: one turn of the loop over files_to_delete
DeleteFile(copy_ok, remove_ok) ==
    /\ mainpc = "delete"
    /\ di < Len(files_to_delete)
    /\ LET file_path == files_to_delete[di + 1]
           backup_path == FreeBackupPath(backup, Basename(file_path), 0)
           copied == backup_dir /\ copy_ok
           removed == RemoveReached(backup_dir, copy_ok) /\ remove_ok
       IN /\ backup' = IF copied
                       THEN (backup_path :> content[file_path]) @@ backup
                       ELSE backup
          /\ exists' = IF removed THEN [exists EXCEPT ![file_path] = FALSE]
                       ELSE exists
          /\ deleted_files' = IF removed THEN Append(deleted_files, file_path)
                              ELSE deleted_files
          /\ failed_deletions' =
               IF removed THEN failed_deletions
               ELSE Append(failed_deletions,
                           <<file_path,
                             IF backup_dir /\ ~copy_ok THEN "copy" ELSE "remove">>)
          /\ di' = NextIndex(di, Len(files_to_delete), ~removed)
    /\ UNCHANGED <<content, mainpc, pc, hash_value, lock, image_hashes,
                   duplicates, processed_count, total_files, count_read, strategy, gi,
                   file_infos, files_to_keep, files_to_delete, backup_dir,
                   final_confirm, total_size, toolvars>>

\* lines 291 and 362-375: the lists are returned and the summary is shown
DeleteReturn ==
    /\ mainpc = "delete"
    /\ di = Len(files_to_delete)
    /\ mainpc' = "summary"
    /\ UNCHANGED <<content, pc, hash_value, lock, image_hashes, duplicates,
                   processed_count, total_files, count_read, resvars, toolvars>>

NextResolve ==
    \/ DisplayResults
    \/ \E choice \in 1..4 : MainMenu(choice)
    \/ \E choice \in 0..7 : ChooseStrategy(choice)
    \/ ChooseGroup
    \/ ChooseReturn
    \/ \E answer \in BOOLEAN, dir \in BackupChoices : AskBackup(answer, dir)
    \/ \E answer \in Answers, makedirs_ok \in BOOLEAN :
         Confirm(answer, makedirs_ok)
    \/ \E copy_ok, remove_ok \in BOOLEAN : DeleteFile(copy_ok, remove_ok)
    \/ DeleteReturn

SpecResolve == InitResolve /\ [][NextResolve]_vars


(* ------------------------ properties: the index ------------------------ *)

\* the files grouped under hash h in the index idx: the first path seen with
\* h and the paths listed in duplicates
GroupIn(idx, h) ==
    (IF h \in DOMAIN idx.image_hashes THEN {idx.image_hashes[h]} ELSE {})
    \cup (IF h \in DupKeys(idx.duplicates)
          THEN Range(DupGet(idx.duplicates, h)) ELSE {})

Index == [image_hashes |-> image_hashes, duplicates |-> duplicates]

Group(h) == GroupIn(Index, h)

PartitionIn(idx) ==
    { GroupIn(idx, h) : h \in DOMAIN idx.image_hashes \cup DupKeys(idx.duplicates) }

\* the files whose task computed a fingerprint
Hashed == { f \in Files : hash_value[f] # None }

NoRepeat(s) == \A i, j \in 1..Len(s) : s[i] = s[j] => i = j

Joined == mainpc \notin {"start", "nodir", "pool", "shutdown"}

InCritical(f) ==
    pc[f] \in {"l47", "l49", "l50", "l51", "l53", "l55", "l55s"}

\* C1: the existence check and the append of the index are one atomic step:
\* in every state every file whose task has finished with a fingerprint is a
\* member of the group of that fingerprint (no lost update), a group holds
\* only files with its fingerprint, and no fingerprint has two groups.
C1_AtomicInsert ==
    /\ \A f \in Files :
         (pc[f] = "done" /\ hash_value[f] # None) => f \in Group(hash_value[f])
    /\ \A i \in 1..Len(duplicates) :
         \A f \in Range(duplicates[i].files) :
            hash_value[f] = duplicates[i].hash
    /\ \A h \in DOMAIN image_hashes : hash_value[image_hashes[h]] = h
    /\ \A i, j \in 1..Len(duplicates) :
         duplicates[i].hash = duplicates[j].hash => i = j

\* two files with one fingerprint met at the lock, and both are in its group
C1_Witness ==
    \E f, g \in Files :
       /\ f # g
       /\ hash_value[f] = hash_value[g]
       /\ pc[f] = "done"
       /\ pc[g] = "lock"
       /\ \E k \in Files : InCritical(k) /\ hash_value[k] = hash_value[f]
       /\ f \in Group(hash_value[f])

\* C2: partition invariant: after the join every hashed file is in exactly
\* one group and at most once in it, and the groups together are exactly the
\* hashed files.
C2_Partition ==
    Joined =>
      /\ UNION PartitionIn(Index) = Hashed
      /\ \A f \in Hashed :
           Cardinality({ G \in PartitionIn(Index) : f \in G }) = 1
      /\ \A i \in 1..Len(duplicates) :
           /\ NoRepeat(duplicates[i].files)
           /\ duplicates[i].hash \in DOMAIN image_hashes
           /\ image_hashes[duplicates[i].hash] \in Range(duplicates[i].files)

\* after the join there are a group of several files and a group of one file
C2_Witness ==
    /\ Joined
    /\ \E G \in PartitionIn(Index) : Cardinality(G) >= 2
    /\ \E G \in PartitionIn(Index) : Cardinality(G) = 1

FileOrder == [i \in 1..NumFiles |-> i]

\* C3: for every completion order the pool produces the partition that
\* hashing the files one at a time in list order produces.
C3_SamePartition ==
    Joined => PartitionIn(Index) = PartitionIn(SeqRun(FileOrder, content))

\* the pool finished with a group whose members are in another order than
\* the one-at-a-time run gives
C3_Witness ==
    /\ Joined
    /\ duplicates # SeqRun(FileOrder, content).duplicates
    /\ \E G \in PartitionIn(Index) : Cardinality(G) >= 2

\* C5: two files are in one group only if their complete contents are equal.
C5_FullContent ==
    \A h \in DOMAIN image_hashes :
       \A f, g \in Group(h) : content[f] = content[g]

GroupFiles(i) == Range(duplicates[i].files)

Kept == Range(files_to_keep)

ToDelete == Range(files_to_delete)

Deleted == Range(deleted_files)

Failed == { failed_deletions[i][1] : i \in 1..Len(failed_deletions) }

InfoPaths == { file_infos[i].path : i \in 1..Len(file_infos) }

\* the executor has been entered
ExecutorRan == mainpc \in {"delete", "summary"}

\* choose_files_to_keep has returned
Selected == strategy # "none" /\ mainpc \notin {"manage", "choose"}

\* the loop of choose_files_to_keep has just handled group gi
AtGroup == mainpc = "choose" /\ gi >= 1

\* C4: with a backup directory a file leaves its path only after its copy
\* was written to the backup directory, and a file whose copy failed stays on
\* disk and is on the failure list.
C4_NoDeleteWithoutBackup ==
    backup_dir =>
      /\ \A f \in Files :
           (~exists[f]) =>
              \E p \in DOMAIN backup :
                 p[1] = Basename(f) /\ backup[p] = content[f]
      /\ \A i \in 1..Len(failed_deletions) :
           failed_deletions[i][2] = "copy" =>
              /\ exists[failed_deletions[i][1]]
              /\ failed_deletions[i][1] \notin Deleted
      /\ Cardinality(DOMAIN backup) >= Len(deleted_files)

\* with a backup directory one copy failed and its file stayed, and another
\* file was copied and deleted
C4_Witness ==
    /\ backup_dir
    /\ mainpc = "summary"
    /\ \E i \in 1..Len(failed_deletions) : failed_deletions[i][2] = "copy"
    /\ deleted_files # <<>>

\* C6: no file is deleted and the executor is not entered unless the last
\* answer was the confirmation; after a cancel or any other answer every
\* file is in place.
C6_ConfirmationGate ==
    (final_confirm # "EVET") =>
       /\ \A f \in Files : exists[f]
       /\ ~ExecutorRan /\ mainpc # "crashed"
       /\ deleted_files = <<>> /\ failed_deletions = <<>>
       /\ di = 0

\* files were selected for deletion, the answer was not the confirmation and
\* the run ended
C6_Witness ==
    /\ files_to_delete # <<>>
    /\ final_confirm = "evet"
    /\ mainpc = "end"
    /\ \A f \in Files : exists[f]

C9_IndependentDeletion ==
    ExecutorRan =>
      /\ di = Len(deleted_files) + Len(failed_deletions)
      /\ Deleted \cup Failed = { files_to_delete[k] : k \in 1..di }
      /\ (mainpc = "summary") => di = Len(files_to_delete)
      /\ \A f \in Deleted : ~exists[f]

\* the first file of the list failed and a later file was deleted
C9_Witness ==
    /\ mainpc = "summary"
    /\ Len(files_to_delete) >= 2
    /\ files_to_delete[1] \in Failed
    /\ files_to_delete[2] \in Deleted

(* ----------------------------- the whole run --------------------------- *)

\* main from the submission of the tasks to the end of manage_duplicates
InitFull ==
    /\ content \in [Files -> ResolveContents]
    /\ mainpc = "pool"
    /\ pc = [f \in Files |-> "queued"]
    /\ hash_value = [f \in Files |-> None]
    /\ lock = NoLock
    /\ image_hashes = <<>>
    /\ duplicates = <<>>
    /\ processed_count = 0
    /\ total_files = NumFiles
    /\ count_read = [f \in Files |-> 0]
    /\ InitLocals
    /\ ToolsIdle

NextFull == NextHash \/ NextResolve

SpecFull == InitFull /\ [][NextFull]_vars

\* C11: phase barrier: whenever main is past the pool (showing, saving,
\* selecting or deleting), every submitted task has completed, with its
\* fingerprint known or failed, no worker holds the lock, and the counters
\* are final; no selection or deletion state coexists with a running task.
C11_PhaseBarrier ==
    /\ Joined =>
         /\ \A f \in Files : pc[f] = "done"
         /\ \A f \in Files :
              hash_value[f] = calculate_image_hash(content[f])
         /\ lock = NoLock
         /\ processed_count = Cardinality(Hashed)
    /\ (\E f \in Files : pc[f] # "done") =>
         /\ strategy = "none" /\ files_to_keep = <<>> /\ files_to_delete = <<>>
         /\ deleted_files = <<>> /\ \A f \in Files : exists[f]

\* the pool ran two tasks at once, and later a file was deleted
C11_Witness ==
    /\ mainpc = "summary"
    /\ deleted_files # <<>>
    /\ duplicates # SeqRun(FileOrder, content).duplicates

\* C12 as stated: in every reachable state every entry of the duplicates
\* map has at least two members.
C12_NoSingletonEver ==
    \A i \in 1..Len(duplicates) : Len(duplicates[i].files) >= 2

\* C12 as amended: every entry of the duplicates map has at least two
\* members in every state in which no worker holds the index lock, hence in
\* every state after the pool join: no group of one file is shown, handed to
\* the selector (which never takes the skip of line 173) or to the executor.
C12_NoSingletonOutsideLock ==
    /\ (lock = NoLock) =>
          \A i \in 1..Len(duplicates) : Len(duplicates[i].files) >= 2
    /\ Joined => lock = NoLock
    /\ \A i \in 1..Len(duplicates) :
          Len(duplicates[i].files) = 1 =>
             \E f \in Files : pc[f] = "l51" /\ hash_value[f] = duplicates[i].hash

\* after a run of the pool the selector handles a group of two or more files
C12_Witness ==
    /\ AtGroup
    /\ Len(duplicates[gi].files) >= 2
    /\ file_infos # <<>>

\* the files can get the same fingerprint: both are readable and reduce to
\* the same pixel string
SamePixels(f, g) ==
    /\ content[f].readable /\ content[g].readable
    /\ PixelString(content[f].pixels) = PixelString(content[g].pixels)

\* no other scanned file can get the fingerprint of f
Alone(f) == \A g \in Files \ {f} : ~SamePixels(f, g)

\* C13: a file whose fingerprint no other hashed file shares is in no
\* duplicate group, is never kept, listed for deletion, deleted or reported
\* as failed, and stays on disk, in every state of the run.
C13_SingletonUntouched ==
    \A f \in Files :
       Alone(f) =>
          /\ \A i \in 1..Len(duplicates) : f \notin GroupFiles(i)
          /\ f \notin Kept \cup ToDelete
          /\ f \notin Deleted \cup Failed
          /\ f \notin InfoPaths
          /\ exists[f]

\* a readable file with a fingerprint of its own went through a run in which
\* a duplicate of another file was deleted
C13_Witness ==
    /\ mainpc = "summary"
    /\ deleted_files # <<>>
    /\ \E f \in Files : Alone(f) /\ content[f].readable /\ pc[f] = "done"

(* ---------------------- properties: the selector ----------------------- *)

\* the selector has just chosen the keeper of group gi
KeeperChosen ==
    AtGroup /\ Len(duplicates[gi].files) >= 2 /\ file_infos # <<>>

\* the info of the keeper of group gi
KeeperInfo ==
    file_infos[CHOOSE k \in 1..Len(file_infos) : file_infos[k].path \in Kept]

\* the keeper is an extremum of the infos read, as the strategy asks
Extremum ==
    \A k \in 1..Len(file_infos) :
       /\ strategy = "newest"   => file_infos[k].mtime <= KeeperInfo.mtime
       /\ strategy = "oldest"   => file_infos[k].mtime >= KeeperInfo.mtime
       /\ strategy = "largest"  => file_infos[k].size <= KeeperInfo.size
       /\ strategy = "smallest" => file_infos[k].size >= KeeperInfo.size

StrategyKey == IF strategy \in {"newest", "oldest"} THEN "mtime" ELSE "size"

\* the infos that tie with the keeper on the compared attribute
Tied ==
    { k \in 1..Len(file_infos) :
        KeyOf(file_infos[k], StrategyKey) = KeyOf(KeeperInfo, StrategyKey) }

\* C15: when several members tie on the compared attribute, the keeper is
\* the tied member with the smallest path, whatever the order of insertion
\* into the group.
C15_TieByPathOrder ==
    (KeeperChosen /\ strategy # "manual") =>
       \A k \in Tied : KeeperInfo.path <= file_infos[k].path

\* the same infos in every order
Reorderings(s) ==
    { [i \in 1..Len(s) |-> s[q[i]]] :
        q \in { p \in [1..Len(s) -> 1..Len(s)] :
                  \A i, j \in 1..Len(s) : p[i] = p[j] => i = j } }

\* C16: for a fixed membership (files, sizes, timestamps) and a fixed
\* policy the selector returns the same keeper whatever the member order
\* the worker timing produced.
C16_OrderIndependentKeeper ==
    (KeeperChosen /\ strategy # "manual") =>
       \A s \in Reorderings(file_infos) :
          KeepFile(strategy, s, 1).path = KeeperInfo.path

(* ---------------------- properties: the executor ----------------------- *)

\* C17: backup names are collision-free: a step of the executor leaves every
\* file of the backup directory in place with its content, and a file that
\* is deleted with a backup adds exactly one new path to the directory, so
\* that different deleted files have different backup paths.
C17_CollisionFreeBackup ==
    [][ (mainpc = "delete") =>
          /\ \A p \in DOMAIN backup :
                p \in DOMAIN backup' /\ backup'[p] = backup[p]
          /\ (backup_dir /\ Len(deleted_files') > Len(deleted_files)) =>
                /\ Cardinality(DOMAIN backup') = Cardinality(DOMAIN backup) + 1
                /\ \E p \in DOMAIN backup' \ DOMAIN backup :
                      /\ p[1] = Basename(files_to_delete[di + 1])
                      /\ backup'[p] = content[files_to_delete[di + 1]]
      ]_vars

\* two deleted files with the same base name were backed up into a
\* directory that already held a file of that name
C17_Witness ==
    /\ mainpc = "summary"
    /\ backup_dir
    /\ Len(deleted_files) = 2
    /\ {<<0, 0>>, <<0, 1>>, <<0, 2>>} \subseteq DOMAIN backup

\* the executor is about to back up the file files_to_delete[di + 1]
AboutToBackup == mainpc = "delete" /\ di < Len(files_to_delete) /\ backup_dir

\* the backup path the search of lines 269-276 ends with for the next file
NextBackupPath ==
    FreeBackupPath(backup, Basename(files_to_delete[di + 1]), 0)

\* C18: the suffix search ends, after at most one probe per file of the
\* backup directory, at the first free name: the name it returns is made of
\* the base name of the file and a suffix k, it is free, and the names with
\* the suffixes 0 (none), 1, ..., k-1, probed one after the other, are all
\* taken.
C18_SuffixSearch ==
    AboutToBackup =>
       /\ NextBackupPath[1] = Basename(files_to_delete[di + 1])
       /\ NextBackupPath[2] \in 0..Cardinality(DOMAIN backup)
       /\ NextBackupPath \notin DOMAIN backup
       /\ \A j \in 0..(NextBackupPath[2] - 1) :
             <<NextBackupPath[1], j>> \in DOMAIN backup

\* the search has to pass the plain name and the suffix 1
C18_Witness ==
    /\ AboutToBackup
    /\ NextBackupPath[2] = 2

\* every file handed to the executor is on exactly one of the two lists,
\* once, and a failure carries its reason
OnOneList ==
    /\ Deleted \cup Failed = ToDelete
    /\ Deleted \cap Failed = {}
    /\ NoRepeat(deleted_files)
    /\ \A i, j \in 1..Len(failed_deletions) :
          failed_deletions[i][1] = failed_deletions[j][1] => i = j
    /\ \A i \in 1..Len(failed_deletions) :
          failed_deletions[i][2] \in {"copy", "remove"}

Attempted == Deleted \cup Failed

\* the state of group i in the resolution: Pending until the executor
\* attempts one of its files, Deleting while some of them are left, then
\* Completed or PartiallyFailed
GroupState(i) ==
    LET todo == GroupFiles(i) \cap ToDelete IN
      IF ~ExecutorRan \/ (todo # {} /\ todo \cap Attempted = {})
         THEN "Pending"
      ELSE IF ~(todo \subseteq Attempted) THEN "Deleting"
      ELSE IF todo \cap Failed = {} THEN "Completed"
      ELSE "PartiallyFailed"

Terminal == {"Completed", "PartiallyFailed"}

AllowedEdges ==
    { <<"Pending", "Pending">>, <<"Pending", "Deleting">>,
      <<"Pending", "Completed">>, <<"Pending", "PartiallyFailed">>,
      <<"Deleting", "Deleting">>, <<"Deleting", "Completed">>,
      <<"Deleting", "PartiallyFailed">>,
      <<"Completed", "Completed">>,
      <<"PartiallyFailed", "PartiallyFailed">> }

InitMain ==
    /\ content \in [Files -> ResolveContents]
    /\ mainpc = "start"
    /\ pc = [f \in Files |-> "queued"]
    /\ hash_value = [f \in Files |-> None]
    /\ lock = NoLock
    /\ image_hashes = <<>>
    /\ duplicates = <<>>
    /\ processed_count = 0
    /\ total_files = 0
    /\ count_read = [f \in Files |-> 0]
    /\ InitLocals
    /\ ToolsIdle

\* main, lines 385-395, and detect_duplicates, lines 79-95: a directory that
\* does not exist is reported and main returns; otherwise the directory is
\* scanned and the tasks are submitted
CheckDirectory(dir_exists) ==
    /\ mainpc = "start"
    /\ mainpc' = IF dir_exists THEN "pool" ELSE "nodir"
    /\ total_files' = IF dir_exists THEN NumFiles ELSE 0
    /\ UNCHANGED <<content, pc, hash_value, lock, image_hashes, duplicates,
                   processed_count, count_read, resvars, toolvars>>

NextMain ==
    \/ \E dir_exists \in BOOLEAN : CheckDirectory(dir_exists)
    \/ NextFull

SpecMain == InitMain /\ [][NextMain]_vars

(* ------------------------- a user interrupt ---------------------------- *)

\* lines 92-102: KeyboardInterrupt is raised in the main thread while it
\* waits in as_completed; `except Exception` does not catch it, and leaving
\* the with block calls executor.shutdown(wait=True), which cancels nothing
Interrupt ==
    /\ mainpc = "pool"
    /\ mainpc' = "shutdown"
    /\ UNCHANGED <<content, pc, hash_value, lock, image_hashes, duplicates,
                   processed_count, total_files, count_read, resvars, toolvars>>

\* lines 92, 395 and 435: when the workers have run every submitted task
\* the exception leaves detect_duplicates and main, neither of which
\* catches it; display_results (line 108) is not reached
ShutdownJoin ==
    /\ mainpc = "shutdown"
    /\ AllTasksDone
    /\ mainpc' = "killed"
    /\ UNCHANGED <<content, pc, hash_value, lock, image_hashes, duplicates,
                   processed_count, total_files, count_read, resvars, toolvars>>

NextCancel ==
    \/ NextHash
    \/ Interrupt
    \/ ShutdownJoin

SpecCancel == InitFull /\ [][NextCancel]_vars

(* ----------------- properties: errors and configuration ---------------- *)

\* C21: no failure aborts the batch: whatever hash, copy, remove or
\* backup-directory creation fails, the run is never ended by an exception
\* that no handler catches.
C21_NoAbort == mainpc # "crashed"

\* no file has been scanned, hashed, selected or deleted
NothingProcessed ==
    /\ total_files = 0
    /\ \A f \in Files : pc[f] = "queued"
    /\ image_hashes = <<>> /\ duplicates = <<>>
    /\ files_to_keep = <<>> /\ files_to_delete = <<>>
    /\ deleted_files = <<>> /\ \A f \in Files : exists[f]

\* C22: configuration errors come before any processing: when a directory
\* that does not exist or a policy number outside the menu has been
\* reported, no file has been scanned, hashed, selected or deleted.
C22_ConfigErrorsFirst ==
    mainpc \in {"nodir", "badchoice"} => NothingProcessed

(* ------------------------ properties: the selector --------------------- *)

\* the entries of files_to_keep that are members of group i
KeptEntries(i) ==
    { k \in 1..Len(files_to_keep) : files_to_keep[k] \in GroupFiles(i) }

\* C23: with the manual strategy manual_file_selection is called at most
\* once per group: each call is followed by one entry of files_to_keep
\* (lines 197-199), and there are never more entries than groups the loop
\* has handled nor two entries for one group.
C23_ManualOncePerGroup ==
    strategy = "manual" =>
      /\ Len(files_to_keep) <= (IF mainpc = "choose" THEN gi ELSE Len(duplicates))
      /\ \A i \in 1..Len(duplicates) : Cardinality(KeptEntries(i)) <= 1

\* the manual strategy has kept a file that is not the first of its group
C23_Witness ==
    /\ strategy = "manual"
    /\ Selected
    /\ \E i \in 1..Len(duplicates) :
         /\ Cardinality(KeptEntries(i)) = 1
         /\ \E k \in KeptEntries(i) : files_to_keep[k] # duplicates[i].files[1]

(* ---------------------- properties: the fingerprint -------------------- *)

\* the task of f has computed its fingerprint
HashComputed(f) == pc[f] \notin {"queued", "hash"}

C25_CooperativeCancel ==
    /\ [][ mainpc = "shutdown" =>
             \A f \in Files : pc[f] = "queued" => pc'[f] = "queued" ]_vars
    /\ [](mainpc # "killed")

(* ------------------------- properties: the summary --------------------- *)

\* C26: the freed space shown in the summary (line 375 prints total_size)
\* is the sum of the sizes of the files that were deleted; a file whose
\* copy or removal failed adds nothing to it.
C26_BytesReclaimed ==
    mainpc = "summary" => total_size = preview_deletion(deleted_files)

(* ----------------------------- the scanners ---------------------------- *)

\* A file name is the sequence of its characters.
LowerAlphabet ==
    <<"a", "b", "c", "d", "e", "f", "g", "h", "i", "j", "k", "l", "m",
      "n", "o", "p", "q", "r", "s", "t", "u", "v", "w", "x", "y", "z">>

UpperAlphabet ==
    <<"A", "B", "C", "D", "E", "F", "G", "H", "I", "J", "K", "L", "M",
      "N", "O", "P", "Q", "R", "S", "T", "U", "V", "W", "X", "Y", "Z">>

LowerChar(ch) ==
    IF \E i \in 1..26 : UpperAlphabet[i] = ch
    THEN LowerAlphabet[CHOOSE i \in 1..26 : UpperAlphabet[i] = ch]
    ELSE ch

UpperChar(ch) ==
    IF \E i \in 1..26 : LowerAlphabet[i] = ch
    THEN UpperAlphabet[CHOOSE i \in 1..26 : LowerAlphabet[i] = ch]
    ELSE ch

\* str.lower() and str.upper()
Lower(str) == [i \in 1..Len(str) |-> LowerChar(str[i])]

Upper(str) == [i \in 1..Len(str) |-> UpperChar(str[i])]

\* str.endswith(suffix)
endswith(str, suffix) ==
    /\ Len(str) >= Len(suffix)
    /\ SubSeq(str, Len(str) - Len(suffix) + 1, Len(str)) = suffix

\* image_clone_remover.py line 61
image_extensions ==
    { <<".", "j", "p", "g">>, <<".", "j", "p", "e", "g">>,
      <<".", "p", "n", "g">>, <<".", "J", "P", "G">>,
      <<".", "J", "P", "E", "G">>, <<".", "P", "N", "G">> }

\* image_clone_remover.py lines 66-71: os.walk gives the files in the order
\* walk_order, and those whose name ends with one of the extensions are
\* returned
find_image_files(walk_order) ==
    SelectSeq(walk_order,
              LAMBDA file : \E ext \in image_extensions : endswith(file, ext))

\* Path.glob('*.' + ext): the files whose name matches, without regard to
\* case where pathlib compares names so
Glob(dir_order, ext, nocase) ==
    SelectSeq(dir_order,
              LAMBDA file :
                 IF nocase
                 THEN endswith(Lower(file), Lower(<<".">> \o ext))
                 ELSE endswith(file, <<".">> \o ext))

\* random_and_sort_image_files.py lines 30-32
photo_extensions ==
    << <<"j", "p", "g">>, <<"j", "p", "e", "g">>, <<"p", "n", "g">>,
       <<"g", "i", "f">>, <<"b", "m", "p">>, <<"w", "e", "b", "p">>,
       <<"t", "i", "f", "f">>, <<"t", "i", "f">> >>

RECURSIVE GlobEach(_, _, _)
\* random_and_sort_image_files.py lines 55-69 with no include and exclude
\* pattern: for every extension the matches of '*.ext' and then of '*.EXT'
\* are appended
GlobEach(exts, dir_order, nocase) ==
    IF exts = <<>> THEN <<>>
    ELSE Glob(dir_order, Head(exts), nocase)
         \o Glob(dir_order, Upper(Head(exts)), nocase)
         \o GlobEach(Tail(exts), dir_order, nocase)

\* dicom_jpg.py lines 85-95: the matches of '*.dcm' and then of '*.DCM'
find_dcm_files(dir_order, nocase) ==
    Glob(dir_order, <<"d", "c", "m">>, nocase)
    \o Glob(dir_order, <<"D", "C", "M">>, nocase)

\* the file names a scanned directory can hold
NameChoices ==
    { <<"a", ".", "j", "p", "g">>, <<"a", ".", "J", "P", "G">>,
      <<"a", ".", "J", "p", "g">>, <<"b", ".", "p", "n", "g">>,
      <<"c", ".", "t", "x", "t">>, <<"j", "p", "g">>,
      <<"s", ".", "d", "c", "m">>, <<"s", ".", "D", "C", "M">>,
      <<"s", ".", "D", "c", "m">> }

\* the orders in which a directory can list the files of the set names
Orderings(names) ==
    { o \in [1..Cardinality(names) -> names] :
        \A i, j \in 1..Cardinality(names) : o[i] = o[j] => i = j }

\* the detector is not run
DetectorIdle ==
    /\ content = [f \in Files |-> Unreadable]
    /\ mainpc = "idle"
    /\ pc = [f \in Files |-> "queued"]
    /\ hash_value = [f \in Files |-> None]
    /\ lock = NoLock
    /\ image_hashes = <<>>
    /\ duplicates = <<>>
    /\ processed_count = 0
    /\ total_files = 0
    /\ count_read = [f \in Files |-> 0]
    /\ InitLocals

\* a directory of up to MaxEntries files; a file system that ignores case
\* holds no two names that differ in case only
InitScan ==
    /\ listing \in { names \in SUBSET NameChoices :
                       Cardinality(names) \in 1..MaxEntries }
    /\ windows \in BOOLEAN
    /\ windows => \A m, n \in listing : Lower(m) = Lower(n) => m = n
    /\ scan_pc = "ready"
    /\ image_files = <<>>
    /\ DetectorIdle
    /\ SortIdle
    /\ PhotoIdle
    /\ DcmIdle
    /\ PoolIdle

\* DuplicateImageDetector.find_image_files
ScanDetector(walk_order) ==
    /\ scan_pc = "ready"
    /\ image_files' = find_image_files(walk_order)
    /\ scan_pc' = "detector"
    /\ UNCHANGED <<hashvars, resvars, sortvars, photovars, dcmvars, listing, windows, poolvars>>

\* PhotoProcessor.find_image_files
ScanPhoto(dir_order) ==
    /\ scan_pc = "ready"
    /\ image_files' = GlobEach(photo_extensions, dir_order, windows)
    /\ scan_pc' = "photo"
    /\ UNCHANGED <<hashvars, resvars, sortvars, photovars, dcmvars, listing, windows, poolvars>>

\* DCMtoJPGConverter.find_dcm_files
ScanDicom(dir_order) ==
    /\ scan_pc = "ready"
    /\ image_files' = find_dcm_files(dir_order, windows)
    /\ scan_pc' = "dicom"
    /\ UNCHANGED <<hashvars, resvars, sortvars, photovars, dcmvars, listing, windows, poolvars>>

NextScan ==
    \/ \E walk_order \in Orderings(listing) : ScanDetector(walk_order)
    \/ \E dir_order \in Orderings(listing) : ScanPhoto(dir_order)
    \/ \E dir_order \in Orderings(listing) : ScanDicom(dir_order)

SpecScan == InitScan /\ [][NextScan]_vars

(* ------------------------ properties: the scanners --------------------- *)

\* how many times name is in the list
Count(list, name) == Cardinality({ i \in 1..Len(list) : list[i] = name })

\* the extensions the scanner that has run accepts, in lower case
AcceptedExtensions ==
    CASE scan_pc = "detector" -> { Lower(ext) : ext \in image_extensions }
      [] scan_pc = "photo" -> { <<".">> \o ext : ext \in Range(photo_extensions) }
      [] OTHER -> { <<".", "d", "c", "m">> }

\* C27: a scanner returns every file of the directory whose extension is an
\* accepted one in any mix of upper and lower case exactly once, and no
\* other file.
C27_ScanExactlyOnce ==
    scan_pc \in {"detector", "photo", "dicom"} =>
       \A name \in listing :
          Count(image_files, name) =
             IF \E ext \in AcceptedExtensions : endswith(Lower(name), ext)
             THEN 1 ELSE 0

(* -------------------------- properties: the pool ----------------------- *)

\* C28: hashing is done outside the lock: a worker that is computing a
\* fingerprint does not hold the lock, the holder of the lock is at one of
\* the lines 47-55 that test and change the index and the counter, and no
\* two workers are at those lines together.
C28_HashOutsideLock ==
    /\ \A f \in Files : pc[f] = "hash" => lock # f
    /\ \A f \in Files : lock = f <=> InCritical(f)
    /\ Cardinality({ f \in Files : InCritical(f) }) <= 1

\* one worker computes a fingerprint while another one holds the lock
C28_Witness ==
    \E f, g \in Files :
       /\ pc[f] = "hash"
       /\ lock = g /\ InCritical(g)

(* ---------------------------- the pool size ---------------------------- *)

Min(a, b) == IF a <= b THEN a ELSE b

\* image_clone_remover.py line 11: max_threads=12 unless the caller gives it
detector_max_threads(given) == IF given = None THEN 12 ELSE given

\* dicom_jpg.py lines 191-194: min(cpu_count * 2, 16) unless the caller
\* gives max_workers
convert_all_max_workers(given, cores) ==
    IF given = None THEN Min(cores * 2, 16) ELSE given

\* the numbers of cores of the machines looked at
CoreChoices == {1, 6, 9}

\* the pool sizes a caller passes
SizeChoices == {None, 1, 2}

Tasks == 1..NumTasks

RunningTasks == { t \in Tasks : task_pc[t] = "running" }

\* a ThreadPoolExecutor has at most max_workers threads, each running one
\* task at a time (the mutant: a thread for every task)
WorkerFreeAlways(running, size) == TRUE

WorkerFree(running, size) == running < size

\* a tool is about to create its pool
InitPool ==
    /\ pool_tool \in {"detector", "dicom"}
    /\ cpu_count \in CoreChoices
    /\ size_given \in SizeChoices
    /\ max_workers = None
    /\ task_pc = [t \in Tasks |-> "queued"]
    /\ DetectorIdle
    /\ SortIdle
    /\ PhotoIdle
    /\ DcmIdle
    /\ ScanIdle

\* image_clone_remover.py lines 11-12 and 92-95, dicom_jpg.py lines
\* 190-208: the pool is created with its size and the tasks are submitted
CreatePool ==
    /\ max_workers = None
    /\ max_workers' = IF pool_tool = "dicom"
                      THEN convert_all_max_workers(size_given, cpu_count)
                      ELSE detector_max_threads(size_given)
    /\ UNCHANGED <<hashvars, resvars, sortvars, photovars, dcmvars, scanvars, pool_tool, cpu_count,
                   size_given, task_pc>>

\* a thread of the pool takes a submitted task
StartTask(t) ==
    /\ max_workers # None
    /\ task_pc[t] = "queued"
    /\ WorkerFree(Cardinality(RunningTasks), max_workers)
    /\ task_pc' = [task_pc EXCEPT ![t] = "running"]
    /\ UNCHANGED <<hashvars, resvars, sortvars, photovars, dcmvars, scanvars, pool_tool, cpu_count,
                   size_given, max_workers>>

\* the task returns
FinishTask(t) ==
    /\ task_pc[t] = "running"
    /\ task_pc' = [task_pc EXCEPT ![t] = "done"]
    /\ UNCHANGED <<hashvars, resvars, sortvars, photovars, dcmvars, scanvars, pool_tool, cpu_count,
                   size_given, max_workers>>

NextPool ==
    \/ CreatePool
    \/ \E t \in Tasks : StartTask(t)
    \/ \E t \in Tasks : FinishTask(t)

SpecPool == InitPool /\ [][NextPool]_vars

(* ----------------------- properties: the pool size --------------------- *)

C30_SelectorPure ==
    [][ mainpc = "choose" =>
          /\ duplicates' = duplicates
          /\ image_hashes' = image_hashes
          /\ exists' = exists
          /\ content' = content
          /\ backup' = backup
          /\ deleted_files' = deleted_files
          /\ failed_deletions' = failed_deletions ]_vars

\* the selector has returned a file to delete, and every file is still on
\* disk in a group of the index
C30_Witness ==
    /\ mainpc = "askbackup"
    /\ files_to_delete # <<>>
    /\ \A f \in Files : exists[f]
    /\ \A k \in 1..Len(files_to_delete) :
         \E i \in 1..Len(duplicates) : files_to_delete[k] \in GroupFiles(i)

(* -------------------------- the DICOM converter ------------------------ *)

DcmFiles == 1..NumDcm

\* dicom_jpg.py lines 121-123: the relative path with its separators
\* replaced by '_' and its suffix dropped; a/b.dcm and a_b.dcm give the
\* same name, here the files 1 and 3
safe_name(d) == (d - 1) % NumSafeNames

\* what a .dcm file can hold: a picture, nothing pydicom can read, a data
\* set without pixel data, pixel data of a shape that is not supported
DcmKinds == {"ok", "noread", "nopixels", "badshape"}

NoPath == <<>>

RECURSIVE get_unique_output_path(_, _, _)
\* dicom_jpg.py lines 67-76: the first name among base.jpg, base_1.jpg,
\* base_2.jpg, ... that is not in the output folder
get_unique_output_path(dir, base, counter) ==
    IF <<base, counter>> \notin DOMAIN dir THEN <<base, counter>>
    ELSE get_unique_output_path(dir, base, counter + 1)

\* dicom_jpg.py lines 59-62 and 218-229: error_count after a conversion was
\* harvested (the mutant: a conversion that returned False is not counted)
increment_error_never(count, success) == count

increment_error(count, success) == IF success THEN count ELSE count + 1

\* what the output folder can hold before the run
OutDirChoices == { <<>>, (<<0, 0>> :> 0) }

DcmRunning == { d \in DcmFiles : dcm_pc[d] \notin {"queued", "done", "counted"} }

\* convert_all when the pool has been created and the files submitted
InitDcm ==
    /\ dcm_kind \in [DcmFiles -> DcmKinds]
    /\ dcm_pc = [d \in DcmFiles |-> "queued"]
    /\ dcm_result = [d \in DcmFiles |-> FALSE]
    /\ file_lock = NoLock
    /\ output_path = [d \in DcmFiles |-> NoPath]
    /\ out_dir \in OutDirChoices
    /\ converted_count = 0
    /\ error_count = 0
    /\ dcm_main = "pool"
    /\ DetectorIdle
    /\ SortIdle
    /\ PhotoIdle
    /\ ScanIdle
    /\ PoolIdle

\* a thread of the pool takes a submitted conversion
DcmStart(d) ==
    /\ dcm_pc[d] = "queued"
    /\ Cardinality(DcmRunning) < DcmWorkers
    /\ dcm_pc' = [dcm_pc EXCEPT ![d] = "read"]
    /\ UNCHANGED <<hashvars, resvars, sortvars, photovars, scanvars, poolvars, dcm_kind,
                   dcm_result, file_lock, output_path, out_dir,
                   converted_count, error_count, dcm_main>>

\* dicom_jpg.py lines 108-123: the file is read; when pydicom raises or the
\* data set has no pixel data the conversion returns False
DcmRead(d) ==
    /\ dcm_pc[d] = "read"
    /\ dcm_pc' = [dcm_pc EXCEPT ![d] =
                    IF dcm_kind[d] \in {"noread", "nopixels"} THEN "done"
                    ELSE "lock"]
    /\ UNCHANGED <<hashvars, resvars, sortvars, photovars, scanvars, poolvars, dcm_kind,
                   dcm_result, file_lock, output_path, out_dir,
                   converted_count, error_count, dcm_main>>

\* dicom_jpg.py line 66: with self.file_lock
DcmAcquire(d) ==
    /\ dcm_pc[d] = "lock"
    /\ file_lock = NoLock
    /\ file_lock' = d
    /\ dcm_pc' = [dcm_pc EXCEPT ![d] = "unique"]
    /\ UNCHANGED <<hashvars, resvars, sortvars, photovars, scanvars, poolvars, dcm_kind,
                   dcm_result, output_path, out_dir, converted_count,
                   error_count, dcm_main>>

\* dicom_jpg.py lines 67-76: the free name is looked for and returned, and
\* the lock is released; no file is created under the name
DcmUnique(d) ==
    /\ dcm_pc[d] = "unique"
    /\ output_path' = [output_path EXCEPT ![d] =
                         get_unique_output_path(out_dir, safe_name(d), 0)]
    /\ file_lock' = NoLock
    /\ dcm_pc' = [dcm_pc EXCEPT ![d] = "render"]
    /\ UNCHANGED <<hashvars, resvars, sortvars, photovars, scanvars, poolvars, dcm_kind,
                   dcm_result, out_dir, converted_count, error_count,
                   dcm_main>>

\* dicom_jpg.py lines 128-156: the pixels are normalised; a shape that is
\* not supported returns False
DcmRender(d) ==
    /\ dcm_pc[d] = "render"
    /\ dcm_pc' = [dcm_pc EXCEPT ![d] =
                    IF dcm_kind[d] = "badshape" THEN "done" ELSE "save"]
    /\ UNCHANGED <<hashvars, resvars, sortvars, photovars, scanvars, poolvars, dcm_kind,
                   dcm_result, file_lock, output_path, out_dir,
                   converted_count, error_count, dcm_main>>

\* dicom_jpg.py lines 159-168: image.save writes the file at output_path,
\* over what is there, and the conversion returns True; when it raises the
\* conversion returns False
DcmSave(d, save_ok) ==
    /\ dcm_pc[d] = "save"
    /\ out_dir' = IF save_ok THEN (output_path[d] :> d) @@ out_dir ELSE out_dir
    /\ dcm_result' = [dcm_result EXCEPT ![d] = save_ok]
    /\ dcm_pc' = [dcm_pc EXCEPT ![d] = "done"]
    /\ UNCHANGED <<hashvars, resvars, sortvars, photovars, scanvars, poolvars, dcm_kind,
                   file_lock, output_path, converted_count, error_count,
                   dcm_main>>

\* dicom_jpg.py lines 211-229: as_completed yields a finished conversion
\* and the main thread counts it
DcmHarvest(d) ==
    /\ dcm_main = "pool"
    /\ dcm_pc[d] = "done"
    /\ dcm_pc' = [dcm_pc EXCEPT ![d] = "counted"]
    /\ converted_count' = IF dcm_result[d] THEN converted_count + 1
                          ELSE converted_count
    /\ error_count' = increment_error(error_count, dcm_result[d])
    /\ UNCHANGED <<hashvars, resvars, sortvars, photovars, scanvars, poolvars, dcm_kind,
                   dcm_result, file_lock, output_path, out_dir, dcm_main>>

\* dicom_jpg.py lines 203-251: every future was yielded, the pool is left
\* and the summary is printed
DcmJoin ==
    /\ dcm_main = "pool"
    /\ \A d \in DcmFiles : dcm_pc[d] = "counted"
    /\ dcm_main' = "summary"
    /\ UNCHANGED <<hashvars, resvars, sortvars, photovars, scanvars, poolvars, dcm_kind, dcm_pc,
                   dcm_result, file_lock, output_path, out_dir,
                   converted_count, error_count>>

NextDcm ==
    \/ \E d \in DcmFiles : DcmStart(d)
    \/ \E d \in DcmFiles : DcmRead(d)
    \/ \E d \in DcmFiles : DcmAcquire(d)
    \/ \E d \in DcmFiles : DcmUnique(d)
    \/ \E d \in DcmFiles : DcmRender(d)
    \/ \E d \in DcmFiles, save_ok \in BOOLEAN : DcmSave(d, save_ok)
    \/ \E d \in DcmFiles : DcmHarvest(d)
    \/ DcmJoin

SpecDcm == InitDcm /\ [][NextDcm]_vars

(* ----------------------- properties: the converter --------------------- *)

\* C31: the output paths are unique: no two conversions of a run are given
\* the same output path, and the JPG of every conversion that returned True
\* is in the output folder, not overwritten by another conversion.
C31_UniqueOutputPath ==
    /\ \A d, e \in DcmFiles :
         (d # e /\ output_path[d] # NoPath /\ output_path[e] # NoPath) =>
            output_path[d] # output_path[e]
    /\ \A d \in DcmFiles :
         dcm_result[d] =>
            (output_path[d] \in DOMAIN out_dir /\ out_dir[output_path[d]] = d)

(* ------------------------ properties: the keeper ----------------------- *)

\* C32: the keeper survives: no kept file is on the delete list, a kept
\* file is never removed from disk, a group whose file information could be
\* read has a kept file, and when the executor has returned every group
\* with a kept file still has a member on disk.
C32_KeeperSurvives ==
    /\ Kept \cap ToDelete = {}
    /\ \A f \in Kept : exists[f] /\ f \notin Deleted
    /\ (AtGroup /\ file_infos # <<>>) => GroupFiles(gi) \cap Kept # {}
    /\ (mainpc = "summary") =>
         \A i \in 1..Len(duplicates) :
            GroupFiles(i) \cap Kept # {} => \E f \in GroupFiles(i) : exists[f]

\* every other member of a group of three was removed and its keeper is the
\* one file of the group left on disk
C32_Witness ==
    /\ mainpc = "summary"
    /\ \E i \in 1..Len(duplicates) :
         /\ Cardinality(GroupFiles(i)) = 3
         /\ \E f \in GroupFiles(i) \cap Kept :
              /\ exists[f]
              /\ \A g \in GroupFiles(i) \ {f} : ~exists[g]

(* ------------- random_and_sort_image_files.PhotoProcessor -------------- *)

PhotoFiles == 1..NumPhotos

\* what an image file can hold
PhotoBytes == { <<1>>, <<2>> }

\* random.randint(1000, 9999), line 94: the two ends of the range
RandChoices == { 1000, 9999 }

\* the name of image file p in the current folder: the first one is called
\* 001.jpg, the name the sequential renaming gives first, the others are not
\* numbers
PhotoName(p) == IF p = 1 THEN 1 ELSE 100 + p

\* lines 81-90: the hex digest of the whole file
file_md5(bytes) == <<"md5", Md5(bytes), 0>>

\* one identifier for every file that cannot be read (the mutant)
error_hash_shared(path, r) == <<"ERROR_HASH", 0, 0>>

\* line 94: f"ERROR_HASH_{str(file_path)}_{random.randint(1000, 9999)}"
error_hash(path, r) == <<"ERROR_HASH", path, r>>

RECURSIVE hash_to_files(_, _, _)
\* lines 112-118: the files grouped by hash, groups and members in the order
\* they are met
hash_to_files(files, hashes, acc) ==
    IF files = <<>> THEN acc
    ELSE hash_to_files(Tail(files), hashes,
                       DupAppend(acc, hashes[Head(files)], Head(files)))

\* lines 127-128: (copy, primary) for every file of a group after the first
GroupCopies(file_list) ==
    [j \in 1..(Len(file_list) - 1) |-> <<file_list[j + 1], file_list[1]>>]

RECURSIVE CopiesOf(_)
\* lines 121-128: duplicates, over the groups in order
CopiesOf(groups) ==
    IF groups = <<>> THEN <<>>
    ELSE GroupCopies(Head(groups).files) \o CopiesOf(Tail(groups))

\* lines 98-165: find_unique_files, given the hash of every file
find_unique_files(files, hashes) ==
    LET groups == hash_to_files(files, hashes, <<>>)
    IN  [unique_files |->
             [i \in 1..Len(groups) |->
                 [hash |-> groups[i].hash, file |-> groups[i].files[1]]],
         duplicates |-> CopiesOf(groups)]

\* the image files of the current folder before the run
StartFolder == [n \in { PhotoName(p) : p \in PhotoFiles } |->
                  photo_content[CHOOSE p \in PhotoFiles : PhotoName(p) = n]]

\* randomize_photos has listed the image files and starts find_unique_files
InitUnique ==
    /\ photo_content \in [PhotoFiles -> PhotoBytes]
    /\ original_files \in Orderings(PhotoFiles)
    /\ file_hashes = <<>>
    /\ hi = 0
    /\ unique_files = <<>>
    /\ photo_duplicates = <<>>
    /\ photo_pc = "hash"
    /\ cwd = StartFolder
    /\ temp_files = <<>>
    /\ temp_exists = FALSE
    /\ randomized_count = 0
    /\ ci = 0
    /\ ri = 0
    /\ sorted_files = <<>>
    /\ si = 0
    /\ sequential_count = 0
    /\ starting_number = 0
    /\ DetectorIdle
    /\ SortIdle
    /\ ScanIdle
    /\ PoolIdle
    /\ DcmIdle

\* get_file_hash, lines 73-96, called at line 113 for the next file
GetFileHash(read_ok, r) ==
    /\ photo_pc = "hash"
    /\ hi < Len(original_files)
    /\ LET path == original_files[hi + 1]
       IN  file_hashes' =
             IF path \in DOMAIN file_hashes THEN file_hashes
             ELSE IF read_ok
                  THEN (path :> file_md5(photo_content[path])) @@ file_hashes
                  ELSE (path :> error_hash(path, r)) @@ file_hashes
    /\ hi' = hi + 1
    /\ UNCHANGED <<hashvars, resvars, sortvars, scanvars, poolvars, dcmvars,
                   photo_content, original_files, unique_files,
                   photo_duplicates, photo_pc, cwd, temp_files, temp_exists,
                   randomized_count, ci, ri, sorted_files, si,
                   sequential_count, starting_number>>

\* find_unique_files, lines 120-165: the second pass and the report
FindUniqueFiles ==
    /\ photo_pc = "hash"
    /\ hi = Len(original_files)
    /\ LET found == find_unique_files(original_files, file_hashes)
       IN  /\ unique_files' = found.unique_files
           /\ photo_duplicates' = found.duplicates
    /\ photo_pc' = "confirm"
    /\ UNCHANGED <<hashvars, resvars, sortvars, scanvars, poolvars, dcmvars,
                   photo_content, original_files, file_hashes, hi, cwd,
                   temp_files, temp_exists, randomized_count, ci, ri,
                   sorted_files, si, sequential_count, starting_number>>

NextUnique ==
    \/ \E read_ok \in BOOLEAN, r \in RandChoices : GetFileHash(read_ok, r)
    \/ FindUniqueFiles

SpecUnique == InitUnique /\ [][NextUnique]_vars

\* the hash of a file is an identifier made because it could not be read
HashFailed(f) == file_hashes[f][1] = "ERROR_HASH"

\* the first file of the input with the hash of f
FirstSeen(f) ==
    original_files[CHOOSE i \in 1..Len(original_files) :
        /\ file_hashes[original_files[i]] = file_hashes[f]
        /\ \A j \in 1..(i - 1) :
              file_hashes[original_files[j]] # file_hashes[f]]

\* C37: find_unique_files partitions its input by hash: every file is the
\* primary of its hash, the first file seen with it, or is listed once as a
\* copy of that primary; there are as many unique files as distinct hashes;
\* and a file that could not be hashed shares its identifier with no other
\* file, so it is a primary and nobody's copy
C37_PartitionByHash ==
    photo_pc = "confirm" =>
        /\ \A f \in PhotoFiles :
              IF f = FirstSeen(f)
              THEN /\ \E i \in 1..Len(unique_files) :
                         unique_files[i] = [hash |-> file_hashes[f], file |-> f]
                   /\ \A j \in 1..Len(photo_duplicates) :
                         photo_duplicates[j][1] # f
              ELSE /\ Cardinality({ j \in 1..Len(photo_duplicates) :
                                      photo_duplicates[j][1] = f }) = 1
                   /\ \E j \in 1..Len(photo_duplicates) :
                         photo_duplicates[j] = <<f, FirstSeen(f)>>
                   /\ \A i \in 1..Len(unique_files) : unique_files[i].file # f
        /\ Len(unique_files) =
              Cardinality({ file_hashes[f] : f \in PhotoFiles })
        /\ \A f \in PhotoFiles :
              HashFailed(f) =>
                  /\ \A g \in PhotoFiles \ {f} : file_hashes[g] # file_hashes[f]
                  /\ f = FirstSeen(f)

\* two files with the same bytes were grouped and a file that could not be
\* read was kept apart
C37_Witness ==
    /\ photo_pc = "confirm"
    /\ Len(photo_duplicates) = 1
    /\ Cardinality({ f \in PhotoFiles : HashFailed(f) }) >= 1
    /\ Len(unique_files) = 2

(* --------------------- PhotoProcessor.process_all ---------------------- *)

\* the number the user gives at line 308: the first target is then the name
\* of an existing file and the later ones are free
StartChoices == { 1 }

\* the files whose removal fails when a folder is emptied: none or one
KeptChoices(files) == { {} } \cup { {n} : n \in DOMAIN files }

\* which files get_file_hash can read: all, or all but one
ReadChoices ==
    { [p \in PhotoFiles |-> p # q] : q \in PhotoFiles \cup {0} }

\* what is left of a folder when only the removals of the files in kept fail
RemoveAllBut(files, kept) == [n \in kept |-> files[n]]

\* cleanup_temp_directory, lines 387-406: every file of the temporary folder
\* is removed unless its removal fails, and the folder is removed if that
\* leaves it empty
CleanupTemp(kept) ==
    IF temp_exists
    THEN /\ temp_files' = RemoveAllBut(temp_files, kept)
         /\ temp_exists' = (kept # {})
    ELSE UNCHANGED <<temp_files, temp_exists>>

\* randomize_photos has run find_unique_files on the files in name order and
\* asks at line 202
InitPhoto ==
    /\ photo_content \in [PhotoFiles -> PhotoBytes]
    /\ original_files = [i \in PhotoFiles |-> i]
    /\ \E read_ok \in ReadChoices :
          file_hashes = [p \in PhotoFiles |->
                            IF read_ok[p] THEN file_md5(photo_content[p])
                            ELSE error_hash(p, 1000)]
    /\ hi = NumPhotos
    /\ unique_files = find_unique_files(original_files, file_hashes).unique_files
    /\ photo_duplicates = find_unique_files(original_files, file_hashes).duplicates
    /\ photo_pc = "confirm"
    /\ cwd = StartFolder
    /\ temp_files = <<>>
    /\ temp_exists = FALSE
    /\ randomized_count = 0
    /\ ci = 0
    /\ ri = 0
    /\ sorted_files = <<>>
    /\ si = 0
    /\ sequential_count = 0
    /\ starting_number = 0
    /\ DetectorIdle
    /\ SortIdle
    /\ ScanIdle
    /\ PoolIdle
    /\ DcmIdle

\* lines 202-208: the answer to the first question; anything but E returns 0
\* and process_all goes to its clean-up at line 425, E makes the temporary
\* folder, and a mkdir that raises is caught at line 450
ConfirmRandomize(answer, mkdir_ok) ==
    /\ photo_pc = "confirm"
    /\ IF answer = "E" /\ mkdir_ok
       THEN /\ temp_exists' = TRUE
            /\ photo_pc' = "copy"
       ELSE /\ photo_pc' = "cleanup"
            /\ UNCHANGED temp_exists
    /\ UNCHANGED <<hashvars, resvars, sortvars, scanvars, poolvars, dcmvars,
                   photo_content, original_files, file_hashes, hi,
                   unique_files, photo_duplicates, cwd, temp_files,
                   randomized_count, ci, ri, sorted_files, si,
                   sequential_count, starting_number>>

\* lines 212-234, one turn of the loop: the primary of the next hash is
\* copied under a random name, which no other copy has; after the last turn
\* line 234 asks about the originals if a copy was made, and otherwise 0 is
\* returned to line 422
CopyUnique(copy_ok) ==
    /\ photo_pc = "copy"
    /\ ci < Len(unique_files)
    /\ LET file_path == unique_files[ci + 1].file
           count == IF copy_ok THEN randomized_count + 1 ELSE randomized_count
       IN  /\ temp_files' =
                 IF copy_ok
                 THEN (file_path :> cwd[PhotoName(file_path)]) @@ temp_files
                 ELSE temp_files
           /\ randomized_count' = count
           /\ photo_pc' = IF ci + 1 < Len(unique_files) THEN "copy"
                          ELSE IF count > 0 THEN "askdelete" ELSE "cleanup"
    /\ ci' = ci + 1
    /\ UNCHANGED <<hashvars, resvars, sortvars, scanvars, poolvars, dcmvars,
                   photo_content, original_files, file_hashes, hi,
                   unique_files, photo_duplicates, cwd, temp_exists, ri,
                   sorted_files, si, sequential_count, starting_number>>

\* lines 235-236: the answer to "delete all original files?"; without E
\* randomize_photos returns and sequentially_rename_photos asks at line 300
AnswerDeleteOriginals(answer) ==
    /\ photo_pc = "askdelete"
    /\ photo_pc' = IF answer = "E" THEN "remove" ELSE "seqask"
    /\ UNCHANGED <<hashvars, resvars, sortvars, scanvars, poolvars, dcmvars,
                   photo_content, original_files, file_hashes, hi,
                   unique_files, photo_duplicates, cwd, temp_files,
                   temp_exists, randomized_count, ci, ri, sorted_files, si,
                   sequential_count, starting_number>>

\* lines 243-262, one turn of the loop over original_files: the file is
\* removed if it is still there, and a removal that raises is logged
RemoveOriginal(remove_ok) ==
    /\ photo_pc = "remove"
    /\ ri < Len(original_files)
    /\ LET name == PhotoName(original_files[ri + 1])
       IN  cwd' = IF name \in DOMAIN cwd /\ remove_ok
                  THEN RemoveAllBut(cwd, DOMAIN cwd \ {name})
                  ELSE cwd
    /\ ri' = ri + 1
    /\ photo_pc' = IF ri + 1 < Len(original_files) THEN "remove" ELSE "seqask"
    /\ UNCHANGED <<hashvars, resvars, sortvars, scanvars, poolvars, dcmvars,
                   photo_content, original_files, file_hashes, hi,
                   unique_files, photo_duplicates, temp_files, temp_exists,
                   randomized_count, ci, sorted_files, si, sequential_count,
                   starting_number>>

\* lines 280-314: the files of the temporary folder sorted by their random
\* names, which is any order; the answer to the question of line 300, and
\* with E the starting number; anything else returns 0 to line 431
AnswerSequential(answer, order, start) ==
    /\ photo_pc = "seqask"
    /\ IF answer = "E"
       THEN /\ sorted_files' = order
            /\ starting_number' = start
            /\ photo_pc' = "seqcopy"
       ELSE /\ photo_pc' = "cleanup"
            /\ UNCHANGED <<sorted_files, starting_number>>
    /\ UNCHANGED <<hashvars, resvars, sortvars, scanvars, poolvars, dcmvars,
                   photo_content, original_files, file_hashes, hi,
                   unique_files, photo_duplicates, cwd, temp_files,
                   temp_exists, randomized_count, ci, ri, si,
                   sequential_count>>

\* lines 316-349, one turn of the loop: a file that has the target name is
\* removed, then the temporary file is copied to the target; either call can
\* raise, which is logged; after the last turn line 349 asks about the
\* temporary files if a copy was made
SeqCopy(outcome) ==
    /\ photo_pc = "seqcopy"
    /\ si < Len(sorted_files)
    /\ LET target == starting_number + si
           source == sorted_files[si + 1]
           cleared == IF target \in DOMAIN cwd
                      THEN RemoveAllBut(cwd, DOMAIN cwd \ {target})
                      ELSE cwd
           count == IF outcome = "copied" THEN sequential_count + 1
                    ELSE sequential_count
       IN  /\ outcome = "remove raises" => target \in DOMAIN cwd
           /\ cwd' = CASE outcome = "copied" ->
                             (target :> temp_files[source]) @@ cleared
                       [] outcome = "copy raises" -> cleared
                       [] OTHER -> cwd
           /\ sequential_count' = count
           /\ photo_pc' = IF si + 1 < Len(sorted_files) THEN "seqcopy"
                          ELSE IF count > 0 THEN "askdelrandom" ELSE "cleanup"
    /\ si' = si + 1
    /\ UNCHANGED <<hashvars, resvars, sortvars, scanvars, poolvars, dcmvars,
                   photo_content, original_files, file_hashes, hi,
                   unique_files, photo_duplicates, temp_files, temp_exists,
                   randomized_count, ci, ri, sorted_files, starting_number>>

\* lines 350-385: the answer to "delete the randomly named files?"; with E
\* the temporary files are removed, those in kept excepted, and the folder
\* with them if it is empty
AnswerDeleteRandom(answer, kept) ==
    /\ photo_pc = "askdelrandom"
    /\ IF answer = "E"
       THEN /\ temp_files' = RemoveAllBut(temp_files, kept)
            /\ temp_exists' = (kept # {})
       ELSE UNCHANGED <<temp_files, temp_exists>>
    /\ photo_pc' = "cleanup"
    /\ UNCHANGED <<hashvars, resvars, sortvars, scanvars, poolvars, dcmvars,
                   photo_content, original_files, file_hashes, hi,
                   unique_files, photo_duplicates, cwd, randomized_count, ci,
                   ri, sorted_files, si, sequential_count, starting_number>>

\* process_all, lines 425, 444, 449 and 453: every way out of the run goes
\* through cleanup_temp_directory
CleanupTempDirectory(kept) ==
    /\ photo_pc = "cleanup"
    /\ CleanupTemp(kept)
    /\ photo_pc' = "end"
    /\ UNCHANGED <<hashvars, resvars, sortvars, scanvars, poolvars, dcmvars,
                   photo_content, original_files, file_hashes, hi,
                   unique_files, photo_duplicates, cwd, randomized_count, ci,
                   ri, sorted_files, si, sequential_count, starting_number>>

\* lines 446-449: Ctrl-C at a question or in a loop ends the phase and goes
\* to the clean-up
PhotoInterrupt ==
    /\ photo_pc \in {"confirm", "copy", "askdelete", "remove", "seqask",
                     "seqcopy", "askdelrandom"}
    /\ photo_pc' = "cleanup"
    /\ UNCHANGED <<hashvars, resvars, sortvars, scanvars, poolvars, dcmvars,
                   photo_content, original_files, file_hashes, hi,
                   unique_files, photo_duplicates, cwd, temp_files,
                   temp_exists, randomized_count, ci, ri, sorted_files, si,
                   sequential_count, starting_number>>

NextPhoto ==
    \/ \E answer \in {"E", "H"}, mkdir_ok \in BOOLEAN :
          ConfirmRandomize(answer, mkdir_ok)
    \/ \E copy_ok \in BOOLEAN : CopyUnique(copy_ok)
    \/ \E answer \in {"E", "H"} : AnswerDeleteOriginals(answer)
    \/ \E remove_ok \in BOOLEAN : RemoveOriginal(remove_ok)
    \/ \E answer \in {"E", "H"}, order \in Orderings(DOMAIN temp_files),
          start \in StartChoices : AnswerSequential(answer, order, start)
    \/ \E outcome \in {"copied", "copy raises", "remove raises"} :
          SeqCopy(outcome)
    \/ \E answer \in {"E", "H"}, kept \in KeptChoices(temp_files) :
          AnswerDeleteRandom(answer, kept)
    \/ \E kept \in KeptChoices(temp_files) : CleanupTempDirectory(kept)
    \/ PhotoInterrupt

SpecPhoto == InitPhoto /\ [][NextPhoto]_vars

\* some file of the current folder or of the temporary folder holds bytes
OnDisk(bytes) ==
    \/ \E n \in DOMAIN cwd : cwd[n] = bytes
    \/ \E t \in DOMAIN temp_files : temp_files[t] = bytes

\* C33: when process_all ends, whether the run was completed or cancelled,
\* every content that an original file had is still held by some file
C33_NoContentLost ==
    photo_pc = "end" => \A p \in PhotoFiles : OnDisk(photo_content[p])

\* C34: randomize_photos removes an original file only if a copy of its
\* content was written to the temporary folder
C34_DeleteOnlyCopied ==
    [][photo_pc = "remove" =>
          \A p \in PhotoFiles :
              (PhotoName(p) \in DOMAIN cwd /\ PhotoName(p) \notin DOMAIN cwd')
                  => \E t \in DOMAIN temp_files :
                         temp_files[t] = photo_content[p]]_vars

\* the conversions convert_all has taken from as_completed
DcmCounted == { d \in DcmFiles : dcm_pc[d] = "counted" }

\* C38: the converter's counters account for every file: converted_count is
\* the number of harvested conversions that returned True, error_count the
\* number of those that did not, and when convert_all reaches its summary
\* their sum is the number of files found
C38_CountersAccountForAll ==
    /\ converted_count = Cardinality({ d \in DcmCounted : dcm_result[d] })
    /\ error_count = Cardinality({ d \in DcmCounted : ~dcm_result[d] })
    /\ dcm_main = "summary" => converted_count + error_count = NumDcm

\* a run ended with both converted and failed files
C38_Witness ==
    /\ dcm_main = "summary"
    /\ converted_count >= 1
    /\ error_count >= 1

(* ---------------------- properties: the counters ----------------------- *)

\* the files image_hashes maps a fingerprint to
Representatives == { image_hashes[h] : h \in DOMAIN image_hashes }

\* the files listed in the groups of duplicates
GroupMembers == UNION { Range(duplicates[i].files) : i \in 1..Len(duplicates) }

\* C39: processed_count loses no update: at every moment it is the number
\* of files whose task has finished with a fingerprint, and when every task
\* has finished that is the number of representatives in image_hashes plus
\* the number of group members that are not representatives
C39_NoLostCount ==
    /\ processed_count =
          Cardinality({ f \in Files : pc[f] = "done" /\ hash_value[f] # None })
    /\ AllTasksDone =>
          /\ processed_count =
                Cardinality({ f \in Files : hash_value[f] # None })
          /\ processed_count =
                Cardinality(Representatives)
                  + Cardinality(GroupMembers \ Representatives)

\* every file was hashed, by tasks that ran side by side, and one group of
\* duplicates was found
C39_Witness ==
    /\ AllTasksDone
    /\ processed_count = NumFiles
    /\ Len(duplicates) = 1
    /\ Cardinality(GroupMembers \ Representatives) >= 1

(* -------------- image_splitter_by_ratio.AdvancedImageSorter ------------ *)

Images == 1..NumImages

\* the names of the images of the source folder: <<"a">> reads a.jpg and
\* <<"a", 1>> reads a_(1).jpg
image_name(f) ==
    IF f = 1 THEN <<"a">> ELSE IF f = 2 THEN <<"a", 1>> ELSE <<"b", f>>

\* width and height of an image
ImageSizes == { <<400, 300>>, <<300, 300>> }

\* what an image file can hold
SortContents == { <<1>>, <<2>> }

\* the bytes calculate_file_hash reads, on the scale of the contents
BlockBytes == 1

\* the empty string calculate_file_hash returns when the file cannot be read
NoHash == 0

\* f.read(8192), line 104
FirstBlock(bytes) == SubSeq(bytes, 1, Min(BlockBytes, Len(bytes)))

\* lines 99-107
calculate_file_hash(bytes, read_ok) ==
    IF read_ok THEN Md5(FirstBlock(bytes)) ELSE NoHash

\* |a - b|
AbsDiff(a, b) == IF a >= b THEN a - b ELSE b - a

\* lines 129-157 with the default thresholds 0.05, 0.1, 2.5 and 0.4
categorize_image(width, height) ==
    IF AbsDiff(width, height) * 20 <= height THEN "kare"
    ELSE IF AbsDiff(width, height) * 10 <= height THEN "kare"
    ELSE IF 2 * width >= 5 * height THEN "panoramik"
    ELSE IF 5 * width <= 2 * height THEN "uzun"
    ELSE IF width > height THEN "yatay"
    ELSE "dikey"

Categories == { "yatay", "dikey", "kare", "panoramik", "uzun" }

StatKeys == Categories \cup { "dublicate", "cok_kucuk", "cok_buyuk", "hata",
                              "toplam" }

\* lines 67-70
NoStats == [k \in StatKeys |-> 0]

\* the target folders before the run: empty, or each holding an a.jpg that
\* an earlier run wrote
TargetChoices == { <<>>, [p \in { <<c, <<"a">>>> : c \in Categories } |-> 0] }

\* the first target name tried after the one in use is taken (the mutant:
\* the counter is not put in the name)
free_target_path_same(fs, dir, filename, target, counter) ==
    <<dir, target>>

RECURSIVE free_target_path(_, _, _, _, _)
\* lines 292-300: the file name, then name_(1), name_(2), ... until a path
\* that does not exist
free_target_path(fs, dir, filename, target, counter) ==
    IF <<dir, target>> \notin DOMAIN fs THEN <<dir, target>>
    ELSE free_target_path(fs, dir, filename, Append(filename, counter),
                          counter + 1)

SortRunning == { f \in Images : sort_pc[f] \notin {"queued", "done"} }

\* with self.thread_lock: the lock can be taken (the mutant: no mutual
\* exclusion)
ThreadLockFreeBroken == TRUE

ThreadLockFree == thread_lock = NoLock

\* sort_images has read the configuration and the source folder and creates
\* the pool, lines 380-396
InitSort ==
    /\ sort_size \in [Images -> ImageSizes]
    /\ sort_content \in [Images -> SortContents]
    /\ check_duplicates \in BOOLEAN
    /\ preview_mode \in BOOLEAN
    /\ sort_pc = [f \in Images |-> "queued"]
    /\ sort_hash = [f \in Images |-> NoHash]
    /\ thread_lock = NoLock
    /\ sort_duplicates = <<>>
    /\ stats = NoStats
    /\ stats_read = [f \in Images |-> NoStats]
    /\ target_fs \in TargetChoices
    /\ target_path = [f \in Images |-> NoPath]
    /\ sort_result = [f \in Images |-> "pending"]
    /\ sort_main = "pool"
    /\ DetectorIdle
    /\ ScanIdle
    /\ PoolIdle
    /\ DcmIdle
    /\ PhotoIdle

\* lines 237-280: a worker takes the call; the image is opened, sized and
\* categorized, and hashed when duplicates are checked; an image that cannot
\* be opened goes to the except clause
SortStart(f, open_ok, read_ok) ==
    /\ sort_main = "pool"
    /\ sort_pc[f] = "queued"
    /\ Cardinality(SortRunning) < SortWorkers
    /\ LET file_hash == IF open_ok /\ check_duplicates
                        THEN calculate_file_hash(sort_content[f], read_ok)
                        ELSE NoHash
       IN  /\ sort_hash' = [sort_hash EXCEPT ![f] = file_hash]
           /\ sort_pc' = [sort_pc EXCEPT ![f] =
                 IF ~open_ok THEN "errwait"
                 ELSE IF file_hash # NoHash /\ check_duplicates THEN "dupwait"
                 ELSE IF ~preview_mode THEN "target"
                 ELSE "statwait"]
    /\ UNCHANGED <<hashvars, resvars, scanvars, poolvars, dcmvars, photovars,
                   sort_size, sort_content, check_duplicates, preview_mode,
                   thread_lock, sort_duplicates, stats, stats_read,
                   target_fs, target_path, sort_result, sort_main>>

\* lines 272, 306 and 319: with self.thread_lock, and the read of the
\* counters the block adds to
SortAcquire(f) ==
    /\ sort_pc[f] \in {"dupwait", "statwait", "errwait"}
    /\ ThreadLockFree
    /\ thread_lock' = f
    /\ stats_read' = [stats_read EXCEPT ![f] = stats]
    /\ sort_pc' = [sort_pc EXCEPT ![f] =
          CASE sort_pc[f] = "dupwait" -> "dupcheck"
            [] sort_pc[f] = "statwait" -> "stats"
            [] OTHER -> "error"]
    /\ UNCHANGED <<hashvars, resvars, scanvars, poolvars, dcmvars, photovars,
                   sort_size, sort_content, check_duplicates, preview_mode,
                   sort_hash, sort_duplicates, stats, target_fs, target_path,
                   sort_result, sort_main>>

\* lines 273-279: a hash that is registered makes the file a duplicate, which
\* is counted and not copied; otherwise the hash is registered for this file
SortDupCheck(f) ==
    /\ sort_pc[f] = "dupcheck"
    /\ sort_duplicates' = DupAppend(sort_duplicates, sort_hash[f], f)
    /\ IF sort_hash[f] \in DupKeys(sort_duplicates)
       THEN /\ stats' = [stats EXCEPT !["dublicate"] =
                                          stats_read[f]["dublicate"] + 1]
            /\ sort_result' = [sort_result EXCEPT ![f] = "duplicate"]
            /\ sort_pc' = [sort_pc EXCEPT ![f] = "done"]
       ELSE /\ sort_pc' = [sort_pc EXCEPT ![f] =
                              IF ~preview_mode THEN "target" ELSE "statwait"]
            /\ UNCHANGED <<stats, sort_result>>
    /\ stats_read' = [stats_read EXCEPT ![f] = NoStats]
    /\ thread_lock' = IF thread_lock = f THEN NoLock ELSE thread_lock
    /\ UNCHANGED <<hashvars, resvars, scanvars, poolvars, dcmvars, photovars,
                   sort_size, sort_content, check_duplicates, preview_mode,
                   sort_hash, target_fs, target_path, sort_main>>

\* lines 283-300: the folder of the category and the first free path in it
SortTarget(f) ==
    /\ sort_pc[f] = "target"
    /\ target_path' = [target_path EXCEPT ![f] =
          free_target_path(target_fs,
                           categorize_image(sort_size[f][1], sort_size[f][2]),
                           image_name(f), image_name(f), 1)]
    /\ sort_pc' = [sort_pc EXCEPT ![f] = "copy"]
    /\ UNCHANGED <<hashvars, resvars, scanvars, poolvars, dcmvars, photovars,
                   sort_size, sort_content, check_duplicates, preview_mode,
                   sort_hash, thread_lock, sort_duplicates, stats,
                   stats_read, target_fs, sort_result, sort_main>>

\* line 303: shutil.copy2 writes the target, replacing a file that is there,
\* or raises
SortCopy(f, copy_ok) ==
    /\ sort_pc[f] = "copy"
    /\ target_fs' = IF copy_ok THEN (target_path[f] :> f) @@ target_fs
                    ELSE target_fs
    /\ sort_pc' = [sort_pc EXCEPT ![f] =
                      IF copy_ok THEN "statwait" ELSE "errwait"]
    /\ UNCHANGED <<hashvars, resvars, scanvars, poolvars, dcmvars, photovars,
                   sort_size, sort_content, check_duplicates, preview_mode,
                   sort_hash, thread_lock, sort_duplicates, stats,
                   stats_read, target_path, sort_result, sort_main>>

\* lines 306-316: the counter of the category and 'toplam' are raised
SortStats(f) ==
    /\ sort_pc[f] = "stats"
    /\ LET category_key == categorize_image(sort_size[f][1], sort_size[f][2])
       IN  stats' = [stats EXCEPT
                        ![category_key] = stats_read[f][category_key] + 1,
                        !["toplam"] = stats_read[f]["toplam"] + 1]
    /\ stats_read' = [stats_read EXCEPT ![f] = NoStats]
    /\ thread_lock' = IF thread_lock = f THEN NoLock ELSE thread_lock
    /\ sort_result' = [sort_result EXCEPT ![f] = "sorted"]
    /\ sort_pc' = [sort_pc EXCEPT ![f] = "done"]
    /\ UNCHANGED <<hashvars, resvars, scanvars, poolvars, dcmvars, photovars,
                   sort_size, sort_content, check_duplicates, preview_mode,
                   sort_hash, sort_duplicates, target_fs, target_path,
                   sort_main>>

\* lines 318-323: the except clause raises 'hata' and 'toplam'
SortError(f) ==
    /\ sort_pc[f] = "error"
    /\ stats' = [stats EXCEPT !["hata"] = stats_read[f]["hata"] + 1,
                              !["toplam"] = stats_read[f]["toplam"] + 1]
    /\ stats_read' = [stats_read EXCEPT ![f] = NoStats]
    /\ thread_lock' = IF thread_lock = f THEN NoLock ELSE thread_lock
    /\ sort_result' = [sort_result EXCEPT ![f] = "failed"]
    /\ sort_pc' = [sort_pc EXCEPT ![f] = "done"]
    /\ UNCHANGED <<hashvars, resvars, scanvars, poolvars, dcmvars, photovars,
                   sort_size, sort_content, check_duplicates, preview_mode,
                   sort_hash, sort_duplicates, target_fs, target_path,
                   sort_main>>

\* lines 396-418: the with block of the executor ends when every call has
\* returned, and the results are printed
SortJoin ==
    /\ sort_main = "pool"
    /\ \A f \in Images : sort_pc[f] = "done"
    /\ sort_main' = "results"
    /\ UNCHANGED <<hashvars, resvars, scanvars, poolvars, dcmvars, photovars,
                   sort_size, sort_content, check_duplicates, preview_mode,
                   sort_pc, sort_hash, thread_lock, sort_duplicates, stats,
                   stats_read, target_fs, target_path, sort_result>>

NextSort ==
    \/ \E f \in Images, open_ok \in BOOLEAN, read_ok \in BOOLEAN :
          SortStart(f, open_ok, read_ok)
    \/ \E f \in Images : SortAcquire(f)
    \/ \E f \in Images : SortDupCheck(f)
    \/ \E f \in Images : SortTarget(f)
    \/ \E f \in Images, copy_ok \in BOOLEAN : SortCopy(f, copy_ok)
    \/ \E f \in Images : SortStats(f)
    \/ \E f \in Images : SortError(f)
    \/ SortJoin

SpecSort == InitSort /\ [][NextSort]_vars

(* ------------------------ properties: the sorter ----------------------- *)

\* C35: a copy never replaces a file that was written in the same run: a
\* path of a target folder that a call of this run has written keeps the
\* file that call wrote
C35_NoOverwrite ==
    [][\A p \in DOMAIN target_fs :
          target_fs[p] # 0 =>
              p \in DOMAIN target_fs' /\ target_fs'[p] = target_fs[p]]_vars

\* the copy of image f is in a target folder
Copied(f) == \E p \in DOMAIN target_fs : target_fs[p] = f

\* C36: with duplicate checking on and preview off, when the run has ended
\* every file skipped as a duplicate has the fingerprint of another file
\* that was copied, so that every fingerprint with a skipped file has a copy
C36_FingerprintCopied ==
    (sort_main = "results" /\ check_duplicates /\ ~preview_mode) =>
        \A f \in Images :
            sort_result[f] = "duplicate" =>
                \E g \in Images \ {f} :
                    sort_hash[g] = sort_hash[f] /\ Copied(g)

\* the sum of the five category counters
CategoryCount ==
    stats["yatay"] + stats["dikey"] + stats["kare"] + stats["panoramik"]
        + stats["uzun"]

\* C40: the sorter's counters account for every file: the category counters,
\* the duplicate counter and the error counter add up to the number of calls
\* that have returned, which is the number of files submitted when the run
\* has ended, and 'toplam' is the category counters plus the error counter
C40_CountersAddUp ==
    /\ CategoryCount + stats["dublicate"] + stats["hata"] =
          Cardinality({ f \in Images : sort_pc[f] = "done" })
    /\ stats["toplam"] = CategoryCount + stats["hata"]
    /\ sort_main = "results" =>
          CategoryCount + stats["dublicate"] + stats["hata"] = NumImages

\* a run ended with a file skipped as a duplicate and a file counted in
\* 'toplam'
C40_Witness ==
    /\ sort_main = "results"
    /\ stats["dublicate"] >= 1
    /\ stats["toplam"] >= 1

====
